---- MODULE Spec2Model ----
(***************************************************************************)
(* AIDebateMaster: the turn-taking engine of src/ai_debate.py (AIDebate)   *)
(* and its GUI subclass of src/ai_debate_gui.py (AIDebateWrapper), run by  *)
(* DebateWorker.  One session is one call of run_debate or                 *)
(* run_optimization; every turn (prompt assembly, one chat-client call,    *)
(* append to the transcript) is one action.                                *)
(*                                                                         *)
(* Texts are modelled as records: the session's question, the text the     *)
(* stub backend returns for the n-th client call (one fixed, distinct text *)
(* per call index), and the message generate_response builds from a        *)
(* failure.  Model identifiers are sequences of characters, so that        *)
(* str.startswith is computed and not assumed.                             *)
(***************************************************************************)
EXTENDS Integers, Sequences, FiniteSets, TLC

\* Largest number of rounds / iterations a session is configured with.
MaxRounds == 2

\* Largest number of client calls that fail within one session.
MaxFailures == 2

\* Largest number of chunks one streamed response is delivered in.
MaxFragments == 2

\* ------------------------------------------------------------------------
\* Model identifiers: three entries of MainWindow.available_models,
\* "gpt-4o", "gpt-3.5-turbo" and "claude-3-opus-20240229", as sequences of
\* characters.
GPT4O == <<"g", "p", "t", "-", "4", "o">>
GPT35 ==
  <<"g", "p", "t", "-", "3", ".", "5", "-", "t", "u", "r", "b", "o">>
CLAUDE3 ==
  <<"c", "l", "a", "u", "d", "e", "-", "3", "-", "o", "p", "u", "s">> \o
  <<"-", "2", "0", "2", "4", "0", "2", "2", "9">>

Models == {GPT4O, GPT35, CLAUDE3}

\* str.startswith(prefix)
startswith(s, prefix) ==
  /\ Len(s) >= Len(prefix)
  /\ SubSeq(s, 1, Len(prefix)) = prefix

\* The prefixes named at the two synthesis points.
PrefixGpt4 == <<"g", "p", "t", "-", "4">>
PrefixClaude3 == <<"c", "l", "a", "u", "d", "e", "-", "3">>
PrefixDeepseekReasoner ==
  <<"d", "e", "e", "p", "s", "e", "e", "k", "-", "r", "e", "a", "s", "o", "n", "e", "r">>

\* ------------------------------------------------------------------------
\* Texts.
NoText == [kind |-> "none", id |-> 0, err |-> "none"]

\* The question the session is started with (parameter initial_question).
initial_question == [kind |-> "question", id |-> 0, err |-> "none"]

\* The empty string given as the question.
EmptyQuestion == [kind |-> "empty", id |-> 0, err |-> "none"]

\* What the stub chat client answers to the n-th call issued by the session.
Text(n) == [kind |-> "text", id |-> n, err |-> "none"]

\* str(e) of the exceptions the chat client can raise.
Errors == {"401", "429"}

\* f"无法生成回复，请检查API密钥或网络连接。错误详情: {str(e)}"
ErrorText(e) == [kind |-> "error", id |-> 0, err |-> e]

\* What one client call does: it answers, or raises one of Errors.
Outcomes == {"ok"} \cup Errors

VARIABLES
  mode,             \* "debate" | "optimization": which run_* the worker calls
  rounds,           \* rounds / iterations argument
  model1, model2,   \* self.model1, self.model2
  stream,           \* self.stream
  wrapper,          \* TRUE: AIDebateWrapper run by DebateWorker; FALSE: AIDebate
  entry,            \* "gui": DebateWorker.run | "cli": main | "direct": run_* called
  api_key1, api_key2, \* TRUE iff the credential given is a non-empty string
  env_key,          \* TRUE iff the environment holds a key main can fall back on
  question,         \* the question given (config['question'], args.question)
  temperature1, temperature2, \* self.temperature1, self.temperature2, in tenths
  log_file,         \* TRUE iff the worker's config names a file for the result
  running,          \* DebateWorker.running
  stop_mark,        \* number of calls issued when DebateWorker.stop was called
  wpc,              \* position of the entry point around the session
  output_file,      \* what save_debate / save_optimization wrote
  events,           \* what the worker and the wrapper emitted on their signals
  api_base1, api_base2, \* the arguments api_base1, api_base2 of the constructor
  api_type1, base_url1, \* self.api_type1 and base_url1 of the constructor
  api_type2, base_url2, \* self.api_type2 and base_url2 of the constructor
  client_base1, client_base2, \* the base_url the two clients are created with
  rpc,              \* position of the constructor
  builtins_print,   \* the function bound to builtins.print
  original_print,   \* per wrapper: the local original_print of its run
  ppc,              \* per wrapper: position of its run_debate / run_optimization
  sinks,            \* per wrapper: the runs whose text its update_signal emitted
  stdout,           \* the runs whose text the built-in print wrote
  ui,               \* what reached the window: delivered events and its own marks
  delivered,        \* how many of the emitted events the UI thread has handled
  spc,              \* position of MainWindow.stop_process
  pc,               \* position of the session in run_debate / run_optimization
  i,                \* loop variable of "for i in range(rounds)"
  conversation,     \* the transcript
  ai1_initial, ai2_initial, ai1_current, ai2_current, ai1_response,
  current_question, ai1_analysis, ai2_optimization,
  calls,            \* what the chat clients have been asked, in order
  result,           \* what the session has handed to its caller
  current_round,    \* AIDebateWrapper.current_round, counted in half rounds
  total_rounds,     \* AIDebateWrapper.total_rounds
  artifacts,        \* files written by the session
  failure,          \* one acquisition: the exception the client raises, if any
  message_content,  \* response.choices[0].message.content of a plain response
  chunks,           \* the chunks a streamed response is delivered in
  pos,              \* number of chunks the loop "for chunk in stream" has consumed
  collected_content, \* the list collected_content
  forwarded,        \* fragments written to sys.stdout / emitted on update_signal
  apc,              \* position of the acquisition in generate_response(_stream)
  returned,         \* what the acquisition returned
  category          \* the category the failure was reported under

constructor == <<api_base1, api_base2, api_type1, base_url1, api_type2, base_url2,
                 client_base1, client_base2, rpc>>
arguments == <<mode, rounds, model1, model2, stream, wrapper, entry, api_key1,
               api_key2, env_key, question, temperature1, temperature2, log_file>>
printing == <<builtins_print, original_print, ppc, sinks, stdout>>
window == <<ui, delivered, spc>>
surface == <<entry, api_key1, api_key2, env_key, question, temperature1, temperature2,
             log_file, constructor, printing, window>>
worker == <<running, stop_mark, wpc, output_file>>
config == <<mode, rounds, model1, model2, stream, wrapper, surface>>
debateLocals == <<ai1_initial, ai2_initial, ai1_current, ai2_current, ai1_response>>
optLocals == <<current_question, ai1_analysis, ai2_optimization>>
acquisition == <<failure, message_content, chunks, pos, collected_content,
                 forwarded, apc, returned, category>>
vars == <<config, pc, i, conversation, debateLocals, optLocals, calls, result,
          current_round, total_rounds, artifacts, acquisition, worker, events>>

\* Temperatures are counted in tenths, the step of the two spin boxes of
\* MainWindow ("setSingleStep(0.1)").
\* "default=0.7" of --temp1 / --temp2 and "setValue(0.7)" of the spin boxes.
DefaultTemperature == 7

\* The ends of the spin boxes' range, "setRange(0.0, 2.0)".
MinTemperature == 0
MaxTemperature == 20

\* A synthesis point that passes participant 1's temperature on.
SynthesisTemperature_Participant1 == temperature1

\* The literal 0.6 passed to generate_response at the two synthesis points.
SynthesisTemperature == 6

\* The temperatures a session is configured with here: the ends of the
\* range, the default, and the values 0.5 and 0.6.
Temperatures == {MinTemperature, 5, 6, DefaultTemperature, MaxTemperature}

NoResult == [status |-> "none", conversation |-> <<>>, final |-> NoText, error |-> "none"]

\* No file has been written by save_debate / save_optimization.
NoFile == [written |-> FALSE, body |-> <<>>, final |-> NoText]

\* ------------------------------------------------------------------------
\* The resolver of AIDebate.__init__.

\* Further model identifiers: "gpt-4", "deepseek-chat", "moonshot-v1-8k",
\* "glm-4", "qwen-turbo", "ernie-bot-4" of MainWindow.available_models, the
\* localized names 通义千问 and 文心一言 (their characters written as code
\* points), and identifiers no prefix matches: "llama-3", "GPT-4", "gp" and
\* the empty string.
GPT4 == <<"g", "p", "t", "-", "4">>
DEEPSEEK == <<"d", "e", "e", "p", "s", "e", "e", "k", "-", "c", "h", "a", "t">>
MOONSHOT ==
  <<"m", "o", "o", "n", "s", "h", "o", "t", "-", "v", "1", "-", "8", "k">>
GLM4 == <<"g", "l", "m", "-", "4">>
QWEN == <<"q", "w", "e", "n", "-", "t", "u", "r", "b", "o">>
TONGYI == <<"U+901A", "U+4E49", "U+5343", "U+95EE">>
ERNIE == <<"e", "r", "n", "i", "e", "-", "b", "o", "t", "-", "4">>
WENXIN == <<"U+6587", "U+5FC3", "U+4E00", "U+8A00">>
LLAMA == <<"l", "l", "a", "m", "a", "-", "3">>
UPPERGPT == <<"G", "P", "T", "-", "4">>
GP == <<"g", "p">>
ResolverModels ==
  {GPT4, GPT35, CLAUDE3, DEEPSEEK, MOONSHOT, GLM4, QWEN, TONGYI, ERNIE, WENXIN,
   LLAMA, UPPERGPT, GP, <<>>}

\* The values of api_base: None, the empty string, a URL.
Endpoint(url) == [given |-> TRUE, url |-> url]
None == [given |-> FALSE, url |-> ""]
ApiBases == {None, Endpoint(""), Endpoint("http://localhost:8000/v1")}

\* "if api_base:"
Truthy(api_base) == api_base.given /\ api_base.url # ""

\* The prefixes of the chain of startswith tests.
PrefixGpt == <<"g", "p", "t">>
PrefixDeepseek == <<"d", "e", "e", "p", "s", "e", "e", "k">>
PrefixClaude == <<"c", "l", "a", "u", "d", "e">>
PrefixMoonshot == <<"m", "o", "o", "n", "s", "h", "o", "t">>
PrefixGlm == <<"g", "l", "m">>
PrefixQwen == <<"q", "w", "e", "n">>
PrefixTongyi == <<"U+901A", "U+4E49">>
PrefixErnie == <<"e", "r", "n", "i", "e">>
PrefixWenxin == <<"U+6587", "U+5FC3">>

\* A resolver that looks at the model name before the explicit endpoint.
_determine_api_type_PrefixFirst(model, api_base) ==
  IF startswith(model, PrefixGpt) THEN <<"openai", None>>
  ELSE IF Truthy(api_base) THEN <<"custom", api_base>>
  ELSE <<"openai", None>>

\* A resolver that does not know the localized names.
_determine_api_type_NoAlias(model, api_base) ==
  IF Truthy(api_base) THEN <<"custom", api_base>>
  ELSE IF startswith(model, PrefixGpt) THEN <<"openai", None>>
  ELSE IF startswith(model, PrefixDeepseek)
       THEN <<"deepseek", Endpoint("https://api.deepseek.com/v1")>>
  ELSE IF startswith(model, PrefixClaude)
       THEN <<"anthropic", Endpoint("https://api.anthropic.com/v1")>>
  ELSE IF startswith(model, PrefixMoonshot)
       THEN <<"moonshot", Endpoint("https://api.moonshot.cn/v1")>>
  ELSE IF startswith(model, PrefixGlm)
       THEN <<"chatglm", Endpoint("https://open.bigmodel.cn/api/paas/v4")>>
  ELSE IF startswith(model, PrefixQwen)
       THEN <<"qwen", Endpoint("https://dashscope.aliyuncs.com/api/v1")>>
  ELSE IF startswith(model, PrefixErnie)
       THEN <<"ernie", Endpoint("https://aip.baidubce.com/rpc/2.0/ai_custom/v1")>>
  ELSE <<"openai", None>>

\* A resolver that takes the empty string for an endpoint.
_determine_api_type_EmptyIsCustom(model, api_base) ==
  IF api_base.given THEN <<"custom", api_base>>
  ELSE <<"openai", None>>

\* _determine_api_type(model, api_base) -> (api_type, base_url)
_determine_api_type(model, api_base) ==
  IF Truthy(api_base) THEN <<"custom", api_base>>
  ELSE IF startswith(model, PrefixGpt) THEN <<"openai", None>>
  ELSE IF startswith(model, PrefixDeepseek)
       THEN <<"deepseek", Endpoint("https://api.deepseek.com/v1")>>
  ELSE IF startswith(model, PrefixClaude)
       THEN <<"anthropic", Endpoint("https://api.anthropic.com/v1")>>
  ELSE IF startswith(model, PrefixMoonshot)
       THEN <<"moonshot", Endpoint("https://api.moonshot.cn/v1")>>
  ELSE IF startswith(model, PrefixGlm)
       THEN <<"chatglm", Endpoint("https://open.bigmodel.cn/api/paas/v4")>>
  ELSE IF startswith(model, PrefixQwen) \/ startswith(model, PrefixTongyi)
       THEN <<"qwen", Endpoint("https://dashscope.aliyuncs.com/api/v1")>>
  ELSE IF startswith(model, PrefixErnie) \/ startswith(model, PrefixWenxin)
       THEN <<"ernie", Endpoint("https://aip.baidubce.com/rpc/2.0/ai_custom/v1")>>
  ELSE <<"openai", None>>

\* The engine after AIDebate.__init__ without explicit endpoints.
Constructed ==
  /\ api_base1 = None
  /\ api_base2 = None
  /\ api_type1 = _determine_api_type(model1, None)[1]
  /\ base_url1 = _determine_api_type(model1, None)[2]
  /\ api_type2 = _determine_api_type(model2, None)[1]
  /\ base_url2 = _determine_api_type(model2, None)[2]
  /\ client_base1 = IF api_type1 = "openai" THEN None ELSE base_url1
  /\ client_base2 = IF api_type2 = "openai" THEN None ELSE base_url2
  /\ rpc = "constructed"

\* The built-in print, the custom_print of a wrapper's run, and a local not
\* yet bound.
BuiltinPrint == [fn |-> "print", of |-> 0]
custom_print(w) == [fn |-> "custom_print", of |-> w]
Unbound == [fn |-> "unbound", of |-> 0]

\* No run of a second wrapper: builtins.print is left to the session.
PrintIdle ==
  /\ builtins_print = BuiltinPrint
  /\ original_print = <<>>
  /\ ppc = <<>>
  /\ sinks = <<>>
  /\ stdout = <<>>

\* Nothing has run yet.
SessionInit ==
  /\ pc = "ready"
  /\ i = 0
  /\ conversation = <<>>
  /\ ai1_initial = NoText
  /\ ai2_initial = NoText
  /\ ai1_current = NoText
  /\ ai2_current = NoText
  /\ ai1_response = NoText
  /\ current_question = NoText
  /\ ai1_analysis = NoText
  /\ ai2_optimization = NoText
  /\ calls = <<>>
  /\ result = NoResult
  /\ current_round = 0
  /\ total_rounds = 0
  /\ artifacts = {}
  /\ running = TRUE
  /\ stop_mark = 0
  /\ wpc = "running"
  /\ output_file = NoFile
  /\ events = <<>>
  /\ ui = <<>>
  /\ delivered = 0
  /\ spc = "idle"

\* An acquisition's value: nothing yet, the text acquired, or the message
\* built from the failure.
NoReturn == [kind |-> "none", chars |-> <<>>]

\* A client call that raises an exception whose str() is msg, and one that
\* does not raise.
Failure(msg) == [raises |-> TRUE, message |-> msg]
NoFailure == [raises |-> FALSE, message |-> <<>>]

\* The acquirers are looked at only as part of a turn.
AcquisitionIdle ==
  /\ failure = NoFailure
  /\ message_content = <<>>
  /\ chunks = <<>>
  /\ pos = 0
  /\ collected_content = <<>>
  /\ forwarded = <<>>
  /\ apc = "idle"
  /\ returned = NoReturn
  /\ category = "none"

\* Sessions with a complete configuration and the default temperatures, run
\* by the GUI worker (wrapper) or on an AIDebate object.
Init ==
  /\ mode \in {"debate", "optimization"}
  /\ rounds \in 1..MaxRounds
  /\ model1 \in Models
  /\ model2 \in Models
  /\ stream \in BOOLEAN
  /\ wrapper \in BOOLEAN
  /\ entry = IF wrapper THEN "gui" ELSE "direct"
  /\ api_key1 = TRUE
  /\ api_key2 = TRUE
  /\ env_key = FALSE
  /\ question = initial_question
  /\ temperature1 = DefaultTemperature
  /\ temperature2 = DefaultTemperature
  /\ log_file = FALSE
  /\ SessionInit
  /\ PrintIdle
  /\ AcquisitionIdle
  /\ Constructed

\* ------------------------------------------------------------------------
\* Prompts.  A prompt is the user message of the call: which template it is
\* and what is interpolated into it.
Prompt(kind, q, own, other, history) ==
  [kind |-> kind, question |-> q, own |-> own, other |-> other,
   history |-> history]

\* run_debate, messages1 / messages2 of phase 1
OpeningPrompt(who, q) ==
  Prompt(IF who = 1 THEN "opening_conventional" ELSE "opening_unconventional",
         q, NoText, NoText, <<>>)

\* run_debate, messages1 of phase 2: 你的观点 = ai1_current, 对方观点 = ai2_current
RebuttalPrompt1(q, own1, current2) ==
  Prompt("rebuttal", q, own1, current2, <<>>)

\* Participant 2's rebuttal prompt with the two positions interchanged.
RebuttalPrompt2_Swapped(q, own2, response1) ==
  Prompt("rebuttal", q, response1, own2, <<>>)

\* run_debate, messages2 of phase 2: 你的观点 = ai2_current, 对方观点 = ai1_response
RebuttalPrompt2(q, own2, response1) ==
  Prompt("rebuttal", q, own2, response1, <<>>)

\* The optimizer's prompt built from the initial analysis on every iteration,
\* as if ai1_analysis were never reassigned.
OptimizePrompt_InitialAnalysis(q, analysis) ==
  Prompt("optimize", q, NoText, conversation[1].content, <<>>)

\* run_optimization, messages2: 原始问题 = current_question, 分析 = ai1_analysis
OptimizePrompt(q, analysis) ==
  Prompt("optimize", q, NoText, analysis, <<>>)

\* run_optimization, messages1 in the loop: 原始问题 = current_question,
\* 当前优化答案 = ai2_optimization
CritiquePrompt(q, optimization) ==
  Prompt("critique", q, NoText, optimization, <<>>)

\* ------------------------------------------------------------------------
\* Transcript entries.
Turn(role, content) == [role |-> role, content |-> content]

\* f"AI 1 ({self.model1})" and f"分析师 ({self.model1})"
Speaker1(label, m) == [label |-> label, model |-> m]
\* f"AI 2 ({self.model2})" and f"优化师 ({self.model2})"
Speaker2(label, m) == [label |-> label, model |-> m]
\* "最终结论" / "最终优化答案"
FinalSpeaker(label) == [label |-> label, model |-> <<>>]

\* ------------------------------------------------------------------------
\* The acquirer: generate_response / generate_response_stream.

\* What the client may do on the next call: answer, or raise (at most
\* MaxFailures times in a session).
ClientOutcomes ==
  IF Cardinality({k \in 1..Len(calls) : calls[k].outcome # "ok"}) < MaxFailures
  THEN Outcomes
  ELSE {"ok"}

\* "if model == self.model1: client = self.client1 else: client = self.client2"
ClientFor(model) == IF model = model1 THEN 1 ELSE 2

\* A failed call leaves the acquirer as an exception only in
\* AIDebateWrapper.generate_response_stream ("except ... raise"), which
\* generate_response dispatches to when self.stream is set; the acquirers of
\* AIDebate catch it and return a message.
Raises(o) == o # "ok" /\ stream /\ wrapper

\* The value the acquirer returns for the next call when it does not raise.
Returned(o) == IF o = "ok" THEN Text(Len(calls) + 1) ELSE ErrorText(o)

CallRecord(model, temp, prompt, phase, rnd, who, o) ==
  [n |-> Len(calls) + 1, phase |-> phase, round |-> rnd, who |-> who,
   model |-> model, client |-> ClientFor(model), temp |-> temp,
   prompt |-> prompt, outcome |-> o, raised |-> Raises(o)]

\* What is emitted on update_signal, progress_signal, finished_signal and
\* error_signal: the kind of the event, its number n (the call a text
\* belongs to, the percentage of a progress), the turn it was emitted in (0
\* outside the turns), and for a text which part of the turn's output it is
\* and, for a fragment, which one.
Event(kind, n, turn, part, j) ==
  [kind |-> kind, n |-> n, turn |-> turn, part |-> part, j |-> j]
\* A text of the worker itself.
TextEvent(n) == Event("text", n, 0, "message", 0)
\* print(f"\n-- AI 1 ({self.model1}) 陈述观点 --") and the like, before the call.
HeaderEvent(t) == Event("text", t, t, "header", 0)
\* "self.update_signal.emit(content_chunk)"
FragmentEvent(t, j) == Event("text", t, t, "fragment", j)
\* print(f"AI 1 ({self.model1}) 初始观点:\n{ai1_initial}\n") and the like, after
\* the call has returned.
OutputEvent(t) == Event("text", t, t, "output", 0)
\* The texts about a failed call: of the acquirer, and of the except branch
\* of AIDebateWrapper.run_debate / run_optimization.
FailureEvent(t, j) == Event("text", t, t, "failure", j)
ProgressEvent(v) == Event("progress", v, Len(calls) + 1, "progress", 0)
FinishedEvent == Event("finished", 0, 0, "terminal", 0)
ErrorEvent == Event("error", 0, 0, "terminal", 0)

\* "int((self.current_round / (self.total_rounds * 2)) * 100)", the round
\* counter h being counted in half rounds.
Progress(h, total) == (25 * h) \div total

\* A turn that shows its completed output before its fragments.
TurnEvents_OutputFirst(o) ==
  IF ~wrapper THEN <<>>
  ELSE <<OutputEvent(Len(calls) + 1)>>
       \o [j \in 1..MaxFragments |-> FragmentEvent(Len(calls) + 1, j)]

\* What a turn on AIDebateWrapper emits, in the order of the statements:
\* the header printed before the call; from a stream that ends normally its
\* fragments and the progress; the failure text of a call that failed (and
\* that of the except branch of the wrapper when the stream raised); the
\* output printed once the call has returned.  The streams of a session have
\* MaxFragments fragments each; a failing stream is taken to fail before its
\* first fragment.  AIDebate writes to stdout.
TurnEvents(o) ==
  IF ~wrapper THEN <<>>
  ELSE IF stream /\ o = "ok"
       THEN <<HeaderEvent(Len(calls) + 1)>>
            \o [j \in 1..MaxFragments |-> FragmentEvent(Len(calls) + 1, j)]
            \o <<ProgressEvent(Progress(current_round + 1, total_rounds)),
                 OutputEvent(Len(calls) + 1)>>
       ELSE IF stream
            THEN <<HeaderEvent(Len(calls) + 1), FailureEvent(Len(calls) + 1, 1),
                   FailureEvent(Len(calls) + 1, 2)>>
            ELSE IF o = "ok"
                 THEN <<HeaderEvent(Len(calls) + 1), OutputEvent(Len(calls) + 1)>>
                 ELSE <<HeaderEvent(Len(calls) + 1), FailureEvent(Len(calls) + 1, 1),
                        OutputEvent(Len(calls) + 1)>>

\* An acquirer that asks the client once more after a failure.
generate_response_Retry(model, temp, prompt, phase, rnd, who, o) ==
  /\ calls' = IF o = "ok"
               THEN Append(calls, CallRecord(model, temp, prompt, phase, rnd, who, o))
               ELSE Append(Append(calls,
                                  CallRecord(model, temp, prompt, phase, rnd, who, o)),
                           CallRecord(model, temp, prompt, phase, rnd, who, o))
  /\ current_round' = IF stream /\ wrapper /\ o = "ok"
                      THEN current_round + 1
                      ELSE current_round
  /\ events' = events \o TurnEvents(o)

\* One call of generate_response with outcome o of the client: exactly one
\* client.chat.completions.create, and the wrapper's progress bookkeeping
\* ("self.current_round += 0.5") after a stream that ended normally.
generate_response(model, temp, prompt, phase, rnd, who, o) ==
  /\ calls' = Append(calls, CallRecord(model, temp, prompt, phase, rnd, who, o))
  /\ current_round' = IF stream /\ wrapper /\ o = "ok"
                      THEN current_round + 1
                      ELSE current_round
  /\ events' = events \o TurnEvents(o)

\* An exception that takes the turns made so far with it.
Raise_Clears(o) ==
  /\ pc' = "failed"
  /\ result' = [status |-> "error", conversation |-> <<>>, final |-> NoText,
                error |-> o]
  /\ conversation' = <<>>
  /\ UNCHANGED <<i, debateLocals, optLocals, artifacts>>

\* The exception leaves run_debate / run_optimization (AIDebateWrapper
\* re-raises) and DebateWorker.run turns it into error_signal.
Raise(o) ==
  /\ pc' = "failed"
  /\ result' = [status |-> "error", conversation |-> <<>>, final |-> NoText,
                error |-> o]
  /\ UNCHANGED <<i, conversation, debateLocals, optLocals, artifacts>>

\* A loop that runs once too often.
InRange_Inclusive(k, n) == k <= n

\* "for i in range(n)": the body runs for index k iff k < n.
InRange(k, n) == k < n

\* The loop body entered at participant 2's rebuttal: participant 1's
\* rebuttal is skipped.
NextDebateStep_SkipsP1(k, n) == IF InRange(k, n) THEN "rebuttal2" ELSE "synthesis"

\* A loop that is never left for phase 3.
NextDebateStep_Stalls(k, n) == IF InRange(k, n) THEN "rebuttal1" ELSE "stalled"

\* Where run_debate goes with loop index k: into the body of
\* "for i in range(rounds)" or past the loop to phase 3.
NextDebateStep(k, n) == IF InRange(k, n) THEN "rebuttal1" ELSE "synthesis"

\* ------------------------------------------------------------------------
\* Synthesis.

HistoryItem(label, rnd, content) == [label |-> label, round |-> rnd, content |-> content]

\* A history that gives each rebuttal of a round to the other participant.
DebateHistory_Swapped(conv, init1, init2, n) ==
  [k \in 1..(2 + 2 * n) |->
     IF k = 1 THEN HistoryItem("AI 1 initial", 0, init1)
     ELSE IF k = 2 THEN HistoryItem("AI 2 initial", 0, init2)
     ELSE LET r == (k - 3) \div 2 IN
          IF (k - 3) % 2 = 0
          THEN HistoryItem("AI 1 rebuttal", r + 1, conv[2 * r + 4].content)
          ELSE HistoryItem("AI 2 rebuttal", r + 1, conv[2 * r + 3].content)]

\* debate_history of run_debate: the two opening statements, then for every
\* round conversation[2*i+2]['content'] and conversation[2*i+3]['content']
\* (0-based).
DebateHistory(conv, init1, init2, n) ==
  [k \in 1..(2 + 2 * n) |->
     IF k = 1 THEN HistoryItem("AI 1 initial", 0, init1)
     ELSE IF k = 2 THEN HistoryItem("AI 2 initial", 0, init2)
     ELSE LET r == (k - 3) \div 2 IN
          IF (k - 3) % 2 = 0
          THEN HistoryItem("AI 1 rebuttal", r + 1, conv[2 * r + 3].content)
          ELSE HistoryItem("AI 2 rebuttal", r + 1, conv[2 * r + 4].content)]

\* optimization_history of run_optimization: the content of conversation[0],
\* then for every iteration that of conversation[2*i+1] and, except on the
\* last, that of conversation[2*i+2].
OptimizationHistory(conv, n) ==
  [k \in 1..(2 * n) |->
     IF k = 1 THEN HistoryItem("analyst initial", 0, conv[1].content)
     ELSE LET r == (k - 2) \div 2 IN
          IF (k - 2) % 2 = 0
          THEN HistoryItem(IF r < n - 1 THEN "optimizer answer"
                           ELSE "final optimizer answer", r + 1,
                           conv[2 * r + 2].content)
          ELSE HistoryItem("analyst feedback", r + 1, conv[2 * r + 3].content)]

\* conclusion_model of run_debate
conclusion_model(m1, m2) ==
  IF startswith(m1, PrefixGpt4) \/ startswith(m1, PrefixDeepseekReasoner)
  THEN m1 ELSE m2

\* final_model of run_optimization
final_model(m1, m2) ==
  IF \/ startswith(m1, PrefixGpt4)
     \/ startswith(m1, PrefixClaude3)
     \/ startswith(m1, PrefixDeepseekReasoner)
  THEN m1 ELSE m2

\* create_full_conversation_log / create_full_optimization_log: the file is
\* written, or the write fails and the failure is printed.
WriteLog(kind, written) ==
  artifacts' = IF written THEN artifacts \cup {kind} ELSE artifacts

\* A result whose final answer is the first turn of the transcript.
Completed_FirstTurn(conv, final) ==
  [status |-> "completed", conversation |-> conv, final |-> conv[1].content,
   error |-> "none"]

\* The dict run_debate / run_optimization returns.
Completed(conv, final) ==
  [status |-> "completed", conversation |-> conv, final |-> final, error |-> "none"]

\* ------------------------------------------------------------------------
\* Entry points: DebateWorker.run, main, or a direct call of run_debate /
\* run_optimization.

\* main: "if not api_key1: ... api_key1 = os.environ.get(var)": a credential
\* given empty is replaced by a key found in the environment.
ResolvedKey(given) == given \/ (entry = "cli" /\ env_key)

\* The checks made before the engine is built.  DebateWorker.run requires
\* both credentials and a non-empty question; main requires both credentials
\* after the fallback to the environment; run_debate and run_optimization
\* check nothing.
Rejects ==
  CASE entry = "gui" -> ~(api_key1 /\ api_key2) \/ question = EmptyQuestion
    [] entry = "cli" -> ~ResolvedKey(api_key1) \/ ~ResolvedKey(api_key2)
    [] OTHER -> FALSE

\* What the entry point reports when it rejects the configuration.
ConfigError ==
  [status |-> "config_error", conversation |-> <<>>, final |-> NoText,
   error |-> IF ~(ResolvedKey(api_key1) /\ ResolvedKey(api_key2))
             THEN "api_keys_required" ELSE "topic_required"]

\* "error_signal.emit(...); return" of DebateWorker.run, "print(...); return"
\* of main.
RejectConfiguration ==
  /\ pc = "ready"
  /\ Rejects
  /\ pc' = "rejected"
  /\ result' = ConfigError
  /\ events' = IF entry = "gui" THEN Append(events, ErrorEvent) ELSE events
  /\ wpc' = "ended"
  /\ UNCHANGED <<config, acquisition, running, stop_mark, output_file, i, conversation,
                 debateLocals, optLocals, calls, current_round, total_rounds,
                 artifacts>>

\* ------------------------------------------------------------------------
\* run_debate.

StartDebate ==
  /\ pc = "ready"
  /\ ~Rejects
  /\ mode = "debate"
  /\ pc' = "opening1"
  /\ current_round' = 0
  /\ total_rounds' = IF wrapper THEN rounds ELSE total_rounds
  /\ UNCHANGED <<config, acquisition, worker, events, i, conversation, debateLocals,
                 optLocals, calls, result, artifacts>>

OpeningP1 ==
  /\ pc = "opening1"
  /\ \E o \in ClientOutcomes :
       /\ generate_response(model1, temperature1,
                            OpeningPrompt(1, question), "Opening", 0, 1, o)
       /\ IF Raises(o)
          THEN Raise(o)
          ELSE /\ conversation' = Append(conversation,
                                         Turn(Speaker1("AI 1", model1), Returned(o)))
               /\ ai1_initial' = Returned(o)
               /\ pc' = "opening2"
               /\ UNCHANGED <<i, ai2_initial, ai1_current, ai2_current, ai1_response,
                              optLocals, result, artifacts>>
  /\ UNCHANGED <<config, acquisition, worker, total_rounds>>

\* The second opening call, then "ai1_current = ai1_initial; ai2_current =
\* ai2_initial" and the entry into the rebuttal loop.
OpeningP2 ==
  /\ pc = "opening2"
  /\ \E o \in ClientOutcomes :
       /\ generate_response(model2, temperature2,
                            OpeningPrompt(2, question), "Opening", 0, 2, o)
       /\ IF Raises(o)
          THEN Raise(o)
          ELSE /\ conversation' = Append(conversation,
                                         Turn(Speaker2("AI 2", model2), Returned(o)))
               /\ ai2_initial' = Returned(o)
               /\ ai1_current' = ai1_initial
               /\ ai2_current' = Returned(o)
               /\ i' = 0
               /\ pc' = NextDebateStep(0, rounds)
               /\ UNCHANGED <<ai1_initial, ai1_response, optLocals, result, artifacts>>
  /\ UNCHANGED <<config, acquisition, worker, total_rounds>>

RebuttalP1 ==
  /\ pc = "rebuttal1"
  /\ \E o \in ClientOutcomes :
       /\ generate_response(model1, temperature1,
                            RebuttalPrompt1(question, ai1_current, ai2_current),
                            "Rebuttal", i + 1, 1, o)
       /\ IF Raises(o)
          THEN Raise(o)
          ELSE /\ conversation' = Append(conversation,
                                         Turn(Speaker1("AI 1", model1), Returned(o)))
               /\ ai1_response' = Returned(o)
               /\ ai1_current' = Returned(o)
               /\ pc' = "rebuttal2"
               /\ UNCHANGED <<i, ai1_initial, ai2_initial, ai2_current, optLocals,
                              result, artifacts>>
  /\ UNCHANGED <<config, acquisition, worker, total_rounds>>

RebuttalP2 ==
  /\ pc = "rebuttal2"
  /\ \E o \in ClientOutcomes :
       /\ generate_response(model2, temperature2,
                            RebuttalPrompt2(question, ai2_current, ai1_response),
                            "Rebuttal", i + 1, 2, o)
       /\ IF Raises(o)
          THEN Raise(o)
          ELSE /\ conversation' = Append(conversation,
                                         Turn(Speaker2("AI 2", model2), Returned(o)))
               /\ ai2_current' = Returned(o)
               /\ i' = i + 1
               /\ pc' = NextDebateStep(i + 1, rounds)
               /\ UNCHANGED <<ai1_initial, ai2_initial, ai1_current, ai1_response,
                              optLocals, result, artifacts>>
  /\ UNCHANGED <<config, acquisition, worker, total_rounds>>

\* Phase 3 up to the return: history, model selection, the call at
\* temperature 0.6, the final turn, the conversation log.
Synthesis ==
  /\ pc = "synthesis"
  /\ \E o \in ClientOutcomes, written \in BOOLEAN :
       /\ generate_response(conclusion_model(model1, model2), SynthesisTemperature,
                            Prompt("synthesis", question, NoText, NoText,
                                   DebateHistory(conversation, ai1_initial,
                                                 ai2_initial, rounds)),
                            "Synthesis", 0, 0, o)
       /\ IF Raises(o)
          THEN Raise(o)
          ELSE /\ conversation' = Append(conversation,
                                         Turn(FinalSpeaker("final conclusion"),
                                              Returned(o)))
               /\ WriteLog("conversation_log", written)
               /\ result' = Completed(conversation', Returned(o))
               /\ pc' = "done"
               /\ UNCHANGED <<i, debateLocals, optLocals>>
  /\ UNCHANGED <<config, acquisition, worker, total_rounds>>

\* ------------------------------------------------------------------------
\* run_optimization.

\* A critique on every iteration, the last one included.
NeedsCritique_EveryIteration(k, iterations) == k < iterations

\* The bound of the condition off by one the other way.
NeedsCritique_StopsEarly(k, iterations) == k < iterations - 2

\* "if i < iterations - 1": the analyst critiques unless this is the last
\* iteration.
NeedsCritique(k, iterations) == k < iterations - 1

\* The first message of run_optimization (初始分析).
AnalysisPrompt(q) == Prompt("analysis", q, NoText, NoText, <<>>)

\* Entry of run_optimization: "current_question = initial_question".
StartOptimization ==
  /\ pc = "ready"
  /\ ~Rejects
  /\ mode = "optimization"
  /\ pc' = "analysis"
  /\ current_question' = question
  /\ current_round' = 0
  /\ total_rounds' = IF wrapper THEN rounds ELSE total_rounds
  /\ UNCHANGED <<config, acquisition, worker, events, i, conversation, debateLocals,
                 ai1_analysis, ai2_optimization, calls, result, artifacts>>

InitialAnalysis ==
  /\ pc = "analysis"
  /\ \E o \in ClientOutcomes :
       /\ generate_response(model1, temperature1, AnalysisPrompt(current_question),
                            "InitialAnalysis", 0, 1, o)
       /\ IF Raises(o)
          THEN Raise(o)
          ELSE /\ conversation' = Append(conversation,
                                         Turn(Speaker1("analyst", model1), Returned(o)))
               /\ ai1_analysis' = Returned(o)
               /\ i' = 0
               /\ pc' = IF InRange(0, rounds) THEN "optimize" ELSE "final"
               /\ UNCHANGED <<debateLocals, current_question, ai2_optimization,
                              result, artifacts>>
  /\ UNCHANGED <<config, acquisition, worker, total_rounds>>

\* The optimizer's turn; on the last iteration the loop body ends here.
Optimize ==
  /\ pc = "optimize"
  /\ \E o \in ClientOutcomes :
       /\ generate_response(model2, temperature2,
                            OptimizePrompt(current_question, ai1_analysis),
                            "Optimize", i + 1, 2, o)
       /\ IF Raises(o)
          THEN Raise(o)
          ELSE /\ conversation' = Append(conversation,
                                         Turn(Speaker2("optimizer", model2), Returned(o)))
               /\ ai2_optimization' = Returned(o)
               /\ IF NeedsCritique(i, rounds)
                  THEN /\ pc' = "critique"
                       /\ i' = i
                  ELSE /\ pc' = IF InRange(i + 1, rounds) THEN "optimize" ELSE "final"
                       /\ i' = i + 1
               /\ UNCHANGED <<debateLocals, current_question, ai1_analysis,
                              result, artifacts>>
  /\ UNCHANGED <<config, acquisition, worker, total_rounds>>

\* The analyst's critique, then "current_question = ai2_optimization" and
\* the next iteration.
Critique ==
  /\ pc = "critique"
  /\ \E o \in ClientOutcomes :
       /\ generate_response(model1, temperature1,
                            CritiquePrompt(current_question, ai2_optimization),
                            "Critique", i + 1, 1, o)
       /\ IF Raises(o)
          THEN Raise(o)
          ELSE /\ conversation' = Append(conversation,
                                         Turn(Speaker1("analyst", model1), Returned(o)))
               /\ ai1_analysis' = Returned(o)
               /\ current_question' = ai2_optimization
               /\ i' = i + 1
               /\ pc' = IF InRange(i + 1, rounds) THEN "optimize" ELSE "final"
               /\ UNCHANGED <<debateLocals, ai2_optimization, result, artifacts>>
  /\ UNCHANGED <<config, acquisition, worker, total_rounds>>

\* Phase 3 of run_optimization up to the return.
FinalSynthesis ==
  /\ pc = "final"
  /\ \E o \in ClientOutcomes, written \in BOOLEAN :
       /\ generate_response(final_model(model1, model2), SynthesisTemperature,
                            Prompt("final", question, NoText, NoText,
                                   OptimizationHistory(conversation, rounds)),
                            "FinalSynthesis", 0, 0, o)
       /\ IF Raises(o)
          THEN Raise(o)
          ELSE /\ conversation' = Append(conversation,
                                         Turn(FinalSpeaker("final optimized answer"),
                                              Returned(o)))
               /\ WriteLog("optimization_log", written)
               /\ result' = Completed(conversation', Returned(o))
               /\ pc' = "done"
               /\ UNCHANGED <<i, debateLocals, optLocals>>
  /\ UNCHANGED <<config, acquisition, worker, total_rounds>>

Next ==
  \/ StartDebate
  \/ OpeningP1
  \/ OpeningP2
  \/ RebuttalP1
  \/ RebuttalP2
  \/ Synthesis
  \/ StartOptimization
  \/ InitialAnalysis
  \/ Optimize
  \/ Critique
  \/ FinalSynthesis

Spec == Init /\ [][Next]_vars

\* Sessions whose client calls all return or fail in the end: a session
\* that can take a step takes one.  Both workflows, every number of rounds,
\* with and without the wrapper and streaming; the models are fixed.
InitLive ==
  /\ Init
  /\ model1 = GPT4O
  /\ model2 = GPT35

SpecLive == InitLive /\ [][Next]_vars /\ WF_vars(Next)

\* ------------------------------------------------------------------------
\* Sessions over the temperatures the configuration surface accepts: one
\* pair of models, the acquirers of AIDebate, every pair of Temperatures.
InitTemperature ==
  /\ mode \in {"debate", "optimization"}
  /\ rounds = MaxRounds
  /\ model1 = GPT4O
  /\ model2 = GPT35
  /\ stream = FALSE
  /\ wrapper = FALSE
  /\ entry = "direct"
  /\ api_key1 = TRUE
  /\ api_key2 = TRUE
  /\ env_key = FALSE
  /\ question = initial_question
  /\ temperature1 \in Temperatures
  /\ temperature2 \in Temperatures
  /\ log_file = FALSE
  /\ SessionInit
  /\ PrintIdle
  /\ AcquisitionIdle
  /\ Constructed

SpecTemperature == InitTemperature /\ [][Next]_vars

\* ------------------------------------------------------------------------
\* Sessions started through each entry point with every combination of
\* given and missing credentials and of a given and an empty question.  A
\* direct call presupposes a constructed AIDebate, so there the credentials
\* are given.
InitEntry ==
  /\ mode \in {"debate", "optimization"}
  /\ rounds = MaxRounds
  /\ model1 = GPT4O
  /\ model2 = GPT35
  /\ stream = FALSE
  /\ entry \in {"gui", "cli", "direct"}
  /\ wrapper = (entry = "gui")
  /\ api_key1 \in BOOLEAN
  /\ api_key2 \in BOOLEAN
  /\ entry = "direct" => (api_key1 /\ api_key2)
  /\ env_key \in BOOLEAN
  /\ question \in {initial_question, EmptyQuestion}
  /\ temperature1 = DefaultTemperature
  /\ temperature2 = DefaultTemperature
  /\ log_file = FALSE
  /\ SessionInit
  /\ PrintIdle
  /\ AcquisitionIdle
  /\ Constructed

NextEntry ==
  \/ RejectConfiguration
  \/ Next

SpecEntry == InitEntry /\ [][NextEntry]_vars

\* ------------------------------------------------------------------------
\* Around the session: DebateWorker.run in the GUI, main on the command
\* line.

\* The label of the turn save_debate / save_optimization leave out of the
\* body: "最终结论" in a debate, "最终优化答案" in an optimization.
FinalLabel(kind) ==
  IF kind = "debate" THEN "final conclusion" ELSE "final optimized answer"

\* A body that leaves no turn out.
Skipped_Never(role, kind) == FALSE

\* "if message['role'] == "最终结论": continue"
Skipped(role, kind) == role.label = FinalLabel(kind)

\* One block "role:\ncontent" of the body, with the position of its turn in
\* the transcript.
Block(k, turn) == [index |-> k, role |-> turn.role, content |-> turn.content]

\* The file save_debate / save_optimization write: the question header, the
\* body in the order of the loop over the transcript, then the final section
\* with final_answer / final_result.
Render(res, kind) ==
  [written |-> TRUE,
   body |-> SelectSeq([k \in 1..Len(res.conversation) |->
                         Block(k, res.conversation[k])],
                      LAMBDA b : ~Skipped(b.role, kind)),
   final |-> res.final]

\* A worker that emits a further text after its terminal event.
Terminal_ThenText(evs, ev) == Append(Append(evs, ev), TextEvent(0))

\* "self.finished_signal.emit(result)" / "self.error_signal.emit(error_msg)":
\* the last statement of the path it is on.
Terminal(evs, ev) == Append(evs, ev)

\* DebateWorker.stop: "self.running = False".  MainWindow.stop_process calls
\* it while the worker thread is running.
Stop ==
  /\ entry = "gui"
  /\ wpc # "ended"
  /\ running
  /\ running' = FALSE
  /\ stop_mark' = Len(calls)
  /\ UNCHANGED <<config, pc, i, conversation, debateLocals, optLocals, calls, result,
                 current_round, total_rounds, artifacts, acquisition, wpc,
                 output_file, events>>

\* DebateWorker.run after run_debate / run_optimization has returned, with
\* config['log_file'] set: json.dump(result) into the file and the message
\* about it, or an exception from makedirs / open / dump, which the outer
\* except turns into error_signal.
WorkerSave ==
  /\ entry = "gui"
  /\ pc = "done"
  /\ wpc = "running"
  /\ log_file
  /\ \E written \in BOOLEAN :
       IF written
       THEN /\ artifacts' = artifacts \cup {"result_json"}
            /\ events' = Append(events, TextEvent(0))
            /\ wpc' = "saved"
       ELSE /\ events' = Terminal(events, ErrorEvent)
            /\ wpc' = "ended"
            /\ UNCHANGED artifacts
  /\ UNCHANGED <<config, pc, i, conversation, debateLocals, optLocals, calls, result,
                 current_round, total_rounds, acquisition, running, stop_mark,
                 output_file>>

\* "self.finished_signal.emit(result)"
WorkerFinish ==
  /\ entry = "gui"
  /\ pc = "done"
  /\ wpc = IF log_file THEN "saved" ELSE "running"
  /\ events' = Terminal(events, FinishedEvent)
  /\ wpc' = "ended"
  /\ UNCHANGED <<config, pc, i, conversation, debateLocals, optLocals, calls, result,
                 current_round, total_rounds, artifacts, acquisition, running,
                 stop_mark, output_file>>

\* The except branch of DebateWorker.run for an exception that left
\* run_debate / run_optimization.
WorkerError ==
  /\ entry = "gui"
  /\ pc = "failed"
  /\ wpc = "running"
  /\ events' = Terminal(events, ErrorEvent)
  /\ wpc' = "ended"
  /\ UNCHANGED <<config, pc, i, conversation, debateLocals, optLocals, calls, result,
                 current_round, total_rounds, artifacts, acquisition, running,
                 stop_mark, output_file>>

\* main after run_debate / run_optimization has returned: save_debate /
\* save_optimization write the text file, or catch the exception of the
\* write and print it.
MainSave ==
  /\ entry = "cli"
  /\ pc = "done"
  /\ wpc = "running"
  /\ \E written \in BOOLEAN :
       /\ output_file' = IF written THEN Render(result, mode) ELSE output_file
       /\ artifacts' = IF written THEN artifacts \cup {"result_text"} ELSE artifacts
  /\ wpc' = "ended"
  /\ UNCHANGED <<config, pc, i, conversation, debateLocals, optLocals, calls, result,
                 current_round, total_rounds, acquisition, running, stop_mark,
                 events>>

\* ------------------------------------------------------------------------
\* The UI thread: the slots of MainWindow connected to the worker's signals
\* (queued, as the signals are emitted in the worker thread) and
\* MainWindow.stop_process.

\* update_output(f"\n{mode}已停止\n") and "self.start_button.setEnabled(True)"
\* of stop_process.
StoppedMark == Event("mark", 0, 0, "stopped", 0)
StartEnabledMark == Event("mark", 0, 0, "start_enabled", 0)

\* An update_output that returns without handling what is queued.
processEvents_Nothing(d) == d

\* "QApplication.processEvents()" of update_output with d events handled so
\* far: every event queued for the UI thread is handled before it returns.
processEvents(d) == Len(events)

\* The event loop hands the next queued event to its slot (update_output,
\* progress_bar.setValue, process_finished, show_error).  It does not run
\* while stop_process is on the UI thread.
Deliver ==
  /\ running \/ spc = "done"
  /\ delivered < Len(events)
  /\ ui' = Append(ui, events[delivered + 1])
  /\ delivered' = delivered + 1
  /\ UNCHANGED <<arguments, constructor, printing, pc, i, conversation, debateLocals,
                 optLocals, calls, result, current_round, total_rounds, artifacts,
                 acquisition, worker, events, spc>>

\* stop_process after "self.debate_worker.stop()": wait() has returned, the
\* thread has ended, and update_output shows the stopped message.
StopReport ==
  /\ ~running
  /\ spc = "idle"
  /\ wpc = "ended"
  /\ ui' = Append(ui, StoppedMark)
           \o SubSeq(events, delivered + 1, processEvents(delivered))
  /\ delivered' = processEvents(delivered)
  /\ spc' = "reported"
  /\ UNCHANGED <<arguments, constructor, printing, pc, i, conversation, debateLocals,
                 optLocals, calls, result, current_round, total_rounds, artifacts,
                 acquisition, worker, events>>

\* "self.start_button.setEnabled(True); self.stop_button.setEnabled(False)"
StopEnable ==
  /\ spc = "reported"
  /\ ui' = Append(ui, StartEnabledMark)
  /\ spc' = "done"
  /\ UNCHANGED <<arguments, constructor, printing, pc, i, conversation, debateLocals,
                 optLocals, calls, result, current_round, total_rounds, artifacts,
                 acquisition, worker, events, delivered>>

\* Sessions of the GUI, the worker thread and the UI thread interleaved:
\* streamed sessions of every length and one-round sessions without
\* streaming.
InitStop ==
  /\ mode \in {"debate", "optimization"}
  /\ rounds \in 1..MaxRounds
  /\ model1 = GPT4O
  /\ model2 = GPT35
  /\ stream \in (IF rounds = 1 THEN BOOLEAN ELSE {TRUE})
  /\ wrapper = TRUE
  /\ entry = "gui"
  /\ api_key1 = TRUE
  /\ api_key2 = TRUE
  /\ env_key = FALSE
  /\ question = initial_question
  /\ temperature1 = DefaultTemperature
  /\ temperature2 = DefaultTemperature
  /\ log_file = FALSE
  /\ SessionInit
  /\ PrintIdle
  /\ AcquisitionIdle
  /\ Constructed

\* Sessions run by the GUI worker, with and without a file for the result,
\* and by main; credential 1 given or missing.
InitWorker ==
  /\ mode \in {"debate", "optimization"}
  /\ rounds \in 1..MaxRounds
  /\ model1 = GPT4O
  /\ model2 = GPT35
  /\ stream \in BOOLEAN
  /\ entry \in {"gui", "cli"}
  /\ wrapper = (entry = "gui")
  /\ api_key1 \in BOOLEAN
  /\ api_key2 = TRUE
  /\ env_key = FALSE
  /\ question = initial_question
  /\ temperature1 = DefaultTemperature
  /\ temperature2 = DefaultTemperature
  /\ log_file \in IF entry = "gui" THEN BOOLEAN ELSE {FALSE}
  /\ SessionInit
  /\ PrintIdle
  /\ AcquisitionIdle
  /\ Constructed

NextWorker ==
  \/ RejectConfiguration
  \/ Stop
  \/ WorkerSave
  \/ WorkerFinish
  \/ WorkerError
  \/ MainSave
  \/ Next

SpecWorker == InitWorker /\ [][NextWorker]_vars

NextStop ==
  \/ Stop
  \/ WorkerFinish
  \/ WorkerError
  \/ Deliver
  \/ StopReport
  \/ StopEnable
  \/ Next

SpecStop == InitStop /\ [][NextStop]_vars

\* ------------------------------------------------------------------------
\* One acquisition, step by step: generate_response without streaming,
\* AIDebate.generate_response_stream, and the override
\* AIDebateWrapper.generate_response_stream.  Strings are sequences of
\* characters.

\* The characters str.strip removes.
Whitespace == {" "}

\* The contents a chunk or a plain response carries: "", " ", "a", " a", "a ".
Fragments == {<<>>, <<" ">>, <<"a">>, <<" ", "a">>, <<"a", " ">>}

\* A chunk whose delta.content is c, and a chunk whose delta.content is None.
Delta(c) == [none |-> FALSE, content |-> c]
NoneDelta == [none |-> TRUE, content |-> <<>>]
Deltas == {NoneDelta} \cup {Delta(c) : c \in Fragments}

\* The streams of at most MaxFragments chunks.
Streams == UNION {[1..n -> Deltas] : n \in 0..MaxFragments}

\* str(e) of the exceptions the client raises here.
M401 == <<"4", "0", "1">>
M429 == <<"4", "2", "9">>
M500 == <<"5", "0", "0">>
M502 == <<"5", "0", "2">>
M503 == <<"5", "0", "3">>
MInvalidRequest ==
  <<"i", "n", "v", "a", "l", "i", "d", "_", "r", "e", "q", "u", "e", "s", "t">> \o
  <<"_", "e", "r", "r", "o", "r">>
MTimeout == <<"t", "i", "m", "e", "o", "u", "t">>
FailureMessages ==
  {M401, M429, M500, M502, M503, MInvalidRequest, MTimeout,
   M401 \o <<" ">> \o MInvalidRequest,
   M429 \o <<" ">> \o M503}

\* "sub in s"
Contains(s, sub) ==
  \E k \in 0..(Len(s) - Len(sub)) : SubSeq(s, k + 1, k + Len(sub)) = sub

\* str.strip()
RECURSIVE lstrip(_)
lstrip(s) == IF s # <<>> /\ Head(s) \in Whitespace THEN lstrip(Tail(s)) ELSE s
RECURSIVE rstrip(_)
rstrip(s) ==
  IF s # <<>> /\ s[Len(s)] \in Whitespace THEN rstrip(SubSeq(s, 1, Len(s) - 1)) ELSE s
strip(s) == rstrip(lstrip(s))

\* A join that puts the later fragments first.
RECURSIVE join_Reversed(_)
join_Reversed(list) ==
  IF list = <<>> THEN <<>> ELSE join_Reversed(Tail(list)) \o Head(list)

\* "".join(list)
RECURSIVE join(_)
join(list) == IF list = <<>> THEN <<>> ELSE Head(list) \o join(Tail(list))

\* What an acquirer returns: the text, or the message
\* f"无法生成回复，请检查API密钥或网络连接。错误详情: {str(e)}".
AcquiredText(chars) == [kind |-> "text", chars |-> chars]
FailureMessage(msg) == [kind |-> "failure", chars |-> msg]

\* The except branch of generate_response: the hint printed for str(e).  No
\* hint is printed in the last case; the failure is reported by its raw
\* message only.
Classify(msg) ==
  IF Contains(msg, M401) THEN "Authentication"
  ELSE IF Contains(msg, M429) THEN "RateLimit"
  ELSE IF Contains(msg, M500) \/ Contains(msg, M502) \/ Contains(msg, M503)
       THEN "Service"
  ELSE IF Contains(msg, MInvalidRequest) THEN "RequestFormat"
  ELSE "Unclassified"

\* The except branch of AIDebate.generate_response_stream.
ClassifyStream(msg) ==
  IF Contains(msg, M401) THEN "Authentication"
  ELSE IF Contains(msg, M429) THEN "RateLimit"
  ELSE IF Contains(msg, M500) \/ Contains(msg, M502) \/ Contains(msg, M503)
       THEN "Service"
  ELSE IF Contains(msg, MInvalidRequest) THEN "RequestFormat"
  ELSE "Unclassified"

\* The except branch of AIDebateWrapper.generate_response_stream: the raw
\* message is emitted and the exception raised again; no hint is chosen.
ClassifyWrapperStream(msg) == "Unclassified"

\* An observer that shows the newest fragment first.
Forward_Prepend(shown, chunk) == <<chunk>> \o shown

\* sys.stdout.write(content_chunk) / self.update_signal.emit(content_chunk)
Forward(shown, chunk) == Append(shown, chunk)

session == <<pc, i, conversation, debateLocals, optLocals, calls, result,
             total_rounds, artifacts, worker, events, window>>

\* One acquisition on AIDebate or AIDebateWrapper, with or without
\* streaming, for every response and every failure of the client.  In a
\* stream the exception is raised once the chunks have been delivered.
InitAcquire ==
  /\ mode = "debate"
  /\ rounds = 1
  /\ model1 = GPT4O
  /\ model2 = GPT35
  /\ stream \in BOOLEAN
  /\ wrapper \in BOOLEAN
  /\ entry = IF wrapper THEN "gui" ELSE "direct"
  /\ api_key1 = TRUE
  /\ api_key2 = TRUE
  /\ env_key = FALSE
  /\ question = initial_question
  /\ temperature1 = DefaultTemperature
  /\ temperature2 = DefaultTemperature
  /\ log_file = FALSE
  /\ SessionInit
  /\ PrintIdle
  /\ Constructed
  /\ failure \in {NoFailure} \cup {Failure(m) : m \in FailureMessages}
  /\ message_content \in IF stream THEN {<<>>} ELSE Fragments
  /\ chunks \in IF stream THEN Streams ELSE {<<>>}
  /\ pos = 0
  /\ collected_content = <<>>
  /\ forwarded = <<>>
  /\ apc = "call"
  /\ returned = NoReturn
  /\ category = "none"

\* generate_response with self.stream unset: one create(), then
\* "response.choices[0].message.content.strip()", or the except branch.
AcquireNonStreaming ==
  /\ apc = "call"
  /\ ~stream
  /\ IF failure.raises
     THEN /\ category' = Classify(failure.message)
          /\ returned' = FailureMessage(failure.message)
     ELSE /\ returned' = AcquiredText(strip(message_content))
          /\ UNCHANGED category
  /\ apc' = "returned"
  /\ UNCHANGED <<config, session, current_round, failure, message_content, chunks,
                 pos, collected_content, forwarded>>

\* generate_response with self.stream set dispatches to
\* generate_response_stream: create(stream=True), "collected_content = []".
StreamCreate ==
  /\ apc = "call"
  /\ stream
  /\ apc' = "loop"
  /\ collected_content' = <<>>
  /\ UNCHANGED <<config, session, current_round, failure, message_content, chunks,
                 pos, forwarded, returned, category>>

\* "for chunk in stream": a chunk without content is passed over, the
\* content of any other chunk is appended to collected_content.
StreamTake ==
  /\ apc = "loop"
  /\ pos < Len(chunks)
  /\ IF chunks[pos + 1].none
     THEN /\ pos' = pos + 1
          /\ UNCHANGED <<collected_content, apc>>
     ELSE /\ collected_content' = Append(collected_content, chunks[pos + 1].content)
          /\ apc' = "forward"
          /\ UNCHANGED pos
  /\ UNCHANGED <<config, session, current_round, failure, message_content, chunks,
                 forwarded, returned, category>>

\* The statement after the append: the fragment goes to the observer.
StreamForward ==
  /\ apc = "forward"
  /\ forwarded' = Forward(forwarded, chunks[pos + 1].content)
  /\ pos' = pos + 1
  /\ apc' = "loop"
  /\ UNCHANGED <<config, session, current_round, failure, message_content, chunks,
                 collected_content, returned, category>>

\* The stream is exhausted.  AIDebate returns complete_content.strip();
\* AIDebateWrapper adds half a round and returns complete_content.
StreamEnd ==
  /\ apc = "loop"
  /\ pos = Len(chunks)
  /\ ~failure.raises
  /\ returned' = IF wrapper
                 THEN AcquiredText(join(collected_content))
                 ELSE AcquiredText(strip(join(collected_content)))
  /\ current_round' = IF wrapper THEN current_round + 1 ELSE current_round
  /\ apc' = "returned"
  /\ UNCHANGED <<config, session, failure, message_content, chunks, pos,
                 collected_content, forwarded, category>>

\* The stream raises.  AIDebate prints its hint and returns the failure
\* message; AIDebateWrapper emits the raw message and raises again.
StreamFail ==
  /\ apc = "loop"
  /\ pos = Len(chunks)
  /\ failure.raises
  /\ IF wrapper
     THEN /\ category' = ClassifyWrapperStream(failure.message)
          /\ apc' = "raised"
          /\ UNCHANGED returned
     ELSE /\ category' = ClassifyStream(failure.message)
          /\ returned' = FailureMessage(failure.message)
          /\ apc' = "returned"
  /\ UNCHANGED <<config, session, current_round, failure, message_content, chunks,
                 pos, collected_content, forwarded>>

NextAcquire ==
  \/ AcquireNonStreaming
  \/ StreamCreate
  \/ StreamTake
  \/ StreamForward
  \/ StreamEnd
  \/ StreamFail

SpecAcquire == InitAcquire /\ [][NextAcquire]_vars

\* ------------------------------------------------------------------------
\* AIDebate.__init__: the resolver _determine_api_type for both models, then
\* the two clients.

\* The constructor called with every pair of ResolverModels and ApiBases.
InitResolve ==
  /\ mode = "debate"
  /\ rounds = 1
  /\ model1 \in ResolverModels
  /\ model2 \in ResolverModels
  /\ stream = FALSE
  /\ wrapper = FALSE
  /\ entry = "direct"
  /\ api_key1 = TRUE
  /\ api_key2 = TRUE
  /\ env_key = FALSE
  /\ question = initial_question
  /\ temperature1 = DefaultTemperature
  /\ temperature2 = DefaultTemperature
  /\ log_file = FALSE
  /\ SessionInit
  /\ PrintIdle
  /\ AcquisitionIdle
  /\ api_base1 \in ApiBases
  /\ api_base2 \in ApiBases
  /\ api_type1 = "unset"
  /\ base_url1 = None
  /\ api_type2 = "unset"
  /\ base_url2 = None
  /\ client_base1 = None
  /\ client_base2 = None
  /\ rpc = "resolve1"

\* "self.api_type1, base_url1 = self._determine_api_type(model1, api_base1)"
ResolveModel1 ==
  /\ rpc = "resolve1"
  /\ api_type1' = _determine_api_type(model1, api_base1)[1]
  /\ base_url1' = _determine_api_type(model1, api_base1)[2]
  /\ rpc' = "resolve2"
  /\ UNCHANGED <<arguments, session, current_round, acquisition, printing, api_base1, api_base2,
                 api_type2, base_url2, client_base1, client_base2>>

\* "self.api_type2, base_url2 = self._determine_api_type(model2, api_base2)"
ResolveModel2 ==
  /\ rpc = "resolve2"
  /\ api_type2' = _determine_api_type(model2, api_base2)[1]
  /\ base_url2' = _determine_api_type(model2, api_base2)[2]
  /\ rpc' = "clients"
  /\ UNCHANGED <<arguments, session, current_round, acquisition, printing, api_base1, api_base2,
                 api_type1, base_url1, client_base1, client_base2>>

\* The two clients: openai.OpenAI(api_key=...) for the type "openai",
\* openai.OpenAI(api_key=..., base_url=...) for every other type.
CreateClients ==
  /\ rpc = "clients"
  /\ client_base1' = IF api_type1 = "openai" THEN None ELSE base_url1
  /\ client_base2' = IF api_type2 = "openai" THEN None ELSE base_url2
  /\ rpc' = "constructed"
  /\ UNCHANGED <<arguments, session, current_round, acquisition, printing, api_base1, api_base2,
                 api_type1, base_url1, api_type2, base_url2>>

NextResolve ==
  \/ ResolveModel1
  \/ ResolveModel2
  \/ CreateClients

SpecResolve == InitResolve /\ [][NextResolve]_vars

\* ------------------------------------------------------------------------
\* AIDebateWrapper.run_debate / run_optimization and builtins.print: two
\* wrappers running in two threads of one process.

\* Calls of print a run makes.
MaxPrints == 2

\* The two wrappers.
Wrappers == {1, 2}

\* A run that leaves its own custom_print installed.
Restored_Never(w) == custom_print(w)

\* "builtins.print = original_print"
Restored(w) == original_print[w]

\* The sinks (update_signal of the wrappers) a call of the function f emits
\* to: custom_print emits to the signal of its wrapper and calls the
\* original_print it closed over; the built-in print emits to none.
RECURSIVE Emitted(_)
Emitted(f) ==
  IF f.fn = "custom_print" THEN {f.of} \cup Emitted(original_print[f.of]) ELSE {}

\* The calls of print the run of w has made so far, all of which reach the
\* built-in print at the end of the chain.
Printed(w) == Len(SelectSeq(stdout, LAMBDA x : x = w))

InitPrint ==
  /\ mode \in {"debate", "optimization"}
  /\ rounds = 1
  /\ model1 = GPT4O
  /\ model2 = GPT35
  /\ stream = TRUE
  /\ wrapper = TRUE
  /\ entry = "gui"
  /\ api_key1 = TRUE
  /\ api_key2 = TRUE
  /\ env_key = FALSE
  /\ question = initial_question
  /\ temperature1 = DefaultTemperature
  /\ temperature2 = DefaultTemperature
  /\ log_file = FALSE
  /\ SessionInit
  /\ AcquisitionIdle
  /\ Constructed
  /\ builtins_print = BuiltinPrint
  /\ original_print = [w \in Wrappers |-> Unbound]
  /\ ppc = [w \in Wrappers |-> "idle"]
  /\ sinks = [w \in Wrappers |-> <<>>]
  /\ stdout = <<>>

\* "original_print = print"
SaveOriginal(w) ==
  /\ ppc[w] = "idle"
  /\ original_print' = [original_print EXCEPT ![w] = builtins_print]
  /\ ppc' = [ppc EXCEPT ![w] = "saved"]
  /\ UNCHANGED <<arguments, constructor, session, current_round, acquisition,
                 builtins_print, sinks, stdout>>

\* "builtins.print = custom_print"
Replace(w) ==
  /\ ppc[w] = "saved"
  /\ builtins_print' = custom_print(w)
  /\ ppc' = [ppc EXCEPT ![w] = "running"]
  /\ UNCHANGED <<arguments, constructor, session, current_round, acquisition,
                 original_print, sinks, stdout>>

\* A print(...) of super().run_debate / super().run_optimization in the
\* thread of w: the name is looked up in builtins at the call.
CallPrint(w) ==
  /\ ppc[w] = "running"
  /\ Printed(w) < MaxPrints
  /\ sinks' = [k \in Wrappers |->
                 IF k \in Emitted(builtins_print) THEN Append(sinks[k], w)
                 ELSE sinks[k]]
  /\ stdout' = Append(stdout, w)
  /\ UNCHANGED <<arguments, constructor, session, current_round, acquisition,
                 builtins_print, original_print, ppc>>

\* The run returned: "builtins.print = original_print; return result".
ReturnRun(w) ==
  /\ ppc[w] = "running"
  /\ builtins_print' = Restored(w)
  /\ ppc' = [ppc EXCEPT ![w] = "ended"]
  /\ UNCHANGED <<arguments, constructor, session, current_round, acquisition,
                 original_print, sinks, stdout>>

\* The run raised: the error text is emitted on the wrapper's own signal,
\* then "builtins.print = original_print; raise".
RaiseRun(w) ==
  /\ ppc[w] = "running"
  /\ sinks' = [sinks EXCEPT ![w] = Append(@, w)]
  /\ builtins_print' = Restored(w)
  /\ ppc' = [ppc EXCEPT ![w] = "ended"]
  /\ UNCHANGED <<arguments, constructor, session, current_round, acquisition,
                 original_print, stdout>>

NextPrint ==
  \/ \E w \in Wrappers : SaveOriginal(w)
  \/ \E w \in Wrappers : Replace(w)
  \/ \E w \in Wrappers : CallPrint(w)
  \/ \E w \in Wrappers : ReturnRun(w)
  \/ \E w \in Wrappers : RaiseRun(w)

SpecPrint == InitPrint /\ [][NextPrint]_vars

\* One run at a time, as MainWindow starts them: start_process disables the
\* start button until process_finished, process_error or stop_process, so the
\* run of the next wrapper begins after the run before it has ended.
Alone(w) == \A v \in Wrappers \ {w} : ppc[v] \in {"idle", "ended"}

NextSingleRun ==
  \/ \E w \in Wrappers : Alone(w) /\ SaveOriginal(w)
  \/ \E w \in Wrappers : Alone(w) /\ Replace(w)
  \/ \E w \in Wrappers : Alone(w) /\ CallPrint(w)
  \/ \E w \in Wrappers : Alone(w) /\ ReturnRun(w)
  \/ \E w \in Wrappers : Alone(w) /\ RaiseRun(w)

SpecSingleRun == InitPrint /\ [][NextSingleRun]_vars

\* ------------------------------------------------------------------------
\* Properties.

\* The session has returned or has been ended by an exception.
Ended == pc \in {"done", "failed"}

\* Every call the session has issued was answered.
AllAnswered == \A k \in 1..Len(calls) : calls[k].outcome = "ok"

\* C1: when a turn's acquisition fails the session aborts at once: the failed
\* call is the last call the session issues, and the session ends as a
\* failure that carries the failed call's error.
C1_AbortOnFailure ==
  /\ \A k \in 1..Len(calls) : calls[k].outcome # "ok" => k = Len(calls)
  /\ \A k \in 1..Len(calls) :
       (calls[k].outcome # "ok" /\ Ended) =>
         (result.status = "error" /\ result.error = calls[k].outcome)

\* C2: a completed debate returns a transcript of 2 + 2*rounds + 1 turns.
C2_DebateTranscriptLength ==
  (mode = "debate" /\ pc = "done") =>
    Len(result.conversation) = 2 + 2 * rounds + 1

C2_Witness ==
  /\ mode = "debate"
  /\ pc = "done"
  /\ rounds = MaxRounds
  /\ result.status = "completed"

\* C3: a completed optimization returns a transcript of
\* 1 + iterations + (iterations - 1) + 1 turns.
C3_OptimizationTranscriptLength ==
  (mode = "optimization" /\ pc = "done") =>
    Len(result.conversation) = 1 + rounds + (rounds - 1) + 1

C3_Witness ==
  /\ mode = "optimization"
  /\ pc = "done"
  /\ rounds = MaxRounds
  /\ result.status = "completed"

\* The k-th step of a debate of n rounds: phase, round, participant.
DebateStep(k, n) ==
  IF k = 1 THEN <<"Opening", 0, 1>>
  ELSE IF k = 2 THEN <<"Opening", 0, 2>>
  ELSE IF k <= 2 + 2 * n
       THEN <<"Rebuttal", (k - 1) \div 2, IF k % 2 = 1 THEN 1 ELSE 2>>
       ELSE <<"Synthesis", 0, 0>>

\* The speaker of the k-th turn of a debate of n rounds.
DebateSpeaker(k, n) ==
  IF k > 2 + 2 * n THEN "final conclusion"
  ELSE IF k % 2 = 1 THEN "AI 1" ELSE "AI 2"

\* C4: in a debate the calls and the turns come in the order Opening-P1,
\* Opening-P2, then Rebuttal-P1 and Rebuttal-P2 of round 1, 2, ..., rounds,
\* then one Synthesis; nothing is skipped or repeated, no turn exists without
\* its call, and the turn of an answered call holds that call's answer.
C4_DebateOrder ==
  mode = "debate" =>
    /\ Len(calls) <= 2 * rounds + 3
    /\ Len(conversation) <= Len(calls)
    /\ Len(calls) <= Len(conversation) + 1
    /\ \A k \in 1..Len(calls) :
         <<calls[k].phase, calls[k].round, calls[k].who>> = DebateStep(k, rounds)
    /\ \A k \in 1..Len(conversation) :
         /\ conversation[k].role.label = DebateSpeaker(k, rounds)
         /\ calls[k].outcome = "ok" => conversation[k].content = Text(k)
    /\ pc = "done" =>
         /\ Cardinality({k \in 1..Len(calls) : calls[k].phase = "Synthesis"}) = 1
         /\ Cardinality({k \in 1..Len(conversation) :
                           conversation[k].role.label = "final conclusion"}) = 1
         /\ conversation[Len(conversation)].role.label = "final conclusion"

C4_Witness ==
  /\ mode = "debate"
  /\ pc = "done"
  /\ rounds = MaxRounds
  /\ AllAnswered
  /\ Len(calls) = Len(conversation)

\* The participant whose model the synthesis point selects: "self.model1 if
\* ... else self.model2".
SelectedParticipant ==
  IF (IF mode = "debate" THEN conclusion_model(model1, <<>>)
                         ELSE final_model(model1, <<>>)) = model1
  THEN 1 ELSE 2

\* C5: every call goes through the client of the participant it belongs to:
\* participant 1's turns through client1, participant 2's through client2,
\* the synthesis call through the client of the participant whose model was
\* selected; in every configuration (stated for the sessions in which every
\* call is answered, where it has to hold all the more).
C5_CallsUseOwnBackend ==
  AllAnswered =>
  \A k \in 1..Len(calls) :
    /\ calls[k].who \in {1, 2} => calls[k].client = calls[k].who
    /\ calls[k].who = 0 => calls[k].client = SelectedParticipant

\* The content of the last turn before position k spoken under label.
LastUtterance(label, k) ==
  LET js == {j \in 1..Len(conversation) :
               j < k /\ conversation[j].role.label = label}
      last == CHOOSE j \in js : \A h \in js : h <= j
  IN conversation[last].content

\* C6: in every rebuttal round participant 1 is prompted with its own latest
\* utterance and participant 2's latest utterance; participant 2 is prompted
\* with its own latest utterance and the rebuttal participant 1 has just
\* produced in that round; after a rebuttal turn the producer's current
\* position is that turn's content.
C6_RebuttalContext ==
  mode = "debate" =>
    /\ \A k \in 1..Len(calls) :
         calls[k].phase = "Rebuttal" =>
           IF calls[k].who = 1
           THEN /\ calls[k].prompt.own = LastUtterance("AI 1", k)
                /\ calls[k].prompt.other = LastUtterance("AI 2", k)
           ELSE /\ calls[k].prompt.own = LastUtterance("AI 2", k)
                /\ calls[k - 1].phase = "Rebuttal"
                /\ calls[k - 1].who = 1
                /\ calls[k - 1].round = calls[k].round
                /\ calls[k].prompt.other = conversation[k - 1].content
    /\ (pc \in {"rebuttal1", "rebuttal2", "synthesis"} /\ Len(conversation) > 2) =>
         LET last == conversation[Len(conversation)] IN
         IF last.role.label = "AI 1"
         THEN ai1_current = last.content
         ELSE ai2_current = last.content

C6_Witness ==
  /\ mode = "debate"
  /\ AllAnswered
  /\ \E k \in 1..Len(conversation) :
       calls[k].phase = "Rebuttal" /\ calls[k].who = 2 /\ calls[k].round = 2

\* C7: in every iteration the question put into the Optimize prompt and into
\* the Critique prompt is the question the session was started with (stated
\* for the sessions in which every call is answered, where it has to hold
\* all the more).
C7_OriginalQuestion ==
  AllAnswered =>
  \A k \in 1..Len(calls) :
    calls[k].phase \in {"Optimize", "Critique"} =>
      calls[k].prompt.question = initial_question

\* C8: the optimizer of iteration 1 is given the initial analysis, the
\* optimizer of iteration r > 1 the critique of iteration r - 1, and the
\* critique of iteration r is given the optimized answer of iteration r.
C8_OptimizationContext ==
  mode = "optimization" =>
    \A k \in 1..Len(calls) :
      /\ (calls[k].phase = "Optimize" /\ calls[k].round = 1) =>
           /\ calls[1].phase = "InitialAnalysis"
           /\ calls[k].prompt.other = conversation[1].content
      /\ (calls[k].phase = "Optimize" /\ calls[k].round > 1) =>
           \E j \in 1..(k - 1) :
             /\ calls[j].phase = "Critique"
             /\ calls[j].round = calls[k].round - 1
             /\ calls[k].prompt.other = conversation[j].content
      /\ calls[k].phase = "Critique" =>
           \E j \in 1..(k - 1) :
             /\ calls[j].phase = "Optimize"
             /\ calls[j].round = calls[k].round
             /\ calls[k].prompt.other = conversation[j].content

C8_Witness ==
  /\ mode = "optimization"
  /\ AllAnswered
  /\ \E k \in 1..Len(conversation) :
       calls[k].phase = "Optimize" /\ calls[k].round = 2

\* C9: the Optimize turn of iteration r is followed by a Critique call and
\* turn iff r is not the last iteration, a Critique belongs to the Optimize
\* just before it, and the turn before the final-synthesis turn is an
\* optimizer turn.
C9_CritiqueUnlessLast ==
  mode = "optimization" =>
    /\ \A k \in 1..Len(calls) :
         /\ (calls[k].phase = "Optimize" /\ k < Len(calls)) =>
              (calls[k + 1].phase = "Critique" <=> calls[k].round # rounds)
         /\ (calls[k].phase = "Optimize" /\ k < Len(conversation)) =>
              (conversation[k + 1].role.label = "analyst" <=> calls[k].round # rounds)
         /\ calls[k].phase = "Critique" =>
              /\ calls[k].round < rounds
              /\ calls[k - 1].phase = "Optimize"
              /\ calls[k - 1].round = calls[k].round
    /\ \A k \in 2..Len(conversation) :
         conversation[k].role.label = "final optimized answer" =>
           conversation[k - 1].role.label = "optimizer"
    /\ pc = "done" =>
         conversation[Len(conversation)].role.label = "final optimized answer"

C9_Witness ==
  /\ mode = "optimization"
  /\ pc = "done"
  /\ rounds = MaxRounds
  /\ \E k \in 1..Len(conversation) : calls[k].phase = "Critique"

\* The identifiers the synthesis points recognise as flagship-tier: the
\* prefixes gpt-4, claude-3 and deepseek-reasoner.
FlagshipTier(m) ==
  \/ startswith(m, PrefixGpt4)
  \/ startswith(m, PrefixClaude3)
  \/ startswith(m, PrefixDeepseekReasoner)

\* C10: the synthesis call of either workflow uses participant 1's model
\* when that identifier is flagship-tier and participant 2's model otherwise
\* (stated for the sessions in which every call is answered).
C10_SynthesisModelByTier ==
  AllAnswered =>
  \A k \in 1..Len(calls) :
    calls[k].phase \in {"Synthesis", "FinalSynthesis"} =>
      calls[k].model = IF FlagshipTier(model1) THEN model1 ELSE model2

\* C11: debate and optimization select the synthesis model by one shared
\* rule: for the session's (model1, model2) the model of the synthesis call
\* is the one run_debate selects and also the one run_optimization selects
\* (stated for the sessions in which every call is answered).
C11_SharedTierRule ==
  AllAnswered =>
  \A k \in 1..Len(calls) :
    calls[k].phase \in {"Synthesis", "FinalSynthesis"} =>
      /\ calls[k].model = conclusion_model(model1, model2)
      /\ calls[k].model = final_model(model1, model2)

\* The text is the message an acquirer builds from a failure.
IsFailureMessage(t) == t.kind = "error"

\* C13: every turn of the transcript holds the text of a successful
\* acquisition: a failure message is never the content of a turn, and never
\* part of a later prompt or of the synthesis prompt.
C13_OnlyAcquiredTexts ==
  /\ \A k \in 1..Len(conversation) : ~IsFailureMessage(conversation[k].content)
  /\ \A k \in 1..Len(calls) :
       /\ ~IsFailureMessage(calls[k].prompt.question)
       /\ ~IsFailureMessage(calls[k].prompt.own)
       /\ ~IsFailureMessage(calls[k].prompt.other)
       /\ \A h \in 1..Len(calls[k].prompt.history) :
            ~IsFailureMessage(calls[k].prompt.history[h].content)

\* C14: no acquisition raises past the acquirer: whatever the client does,
\* with or without streaming, on AIDebate and on AIDebateWrapper, the call
\* of generate_response returns.
C14_AcquirerNeverRaises ==
  \A k \in 1..Len(calls) : ~calls[k].raised

\* The number of turns of the session: 2 * rounds + 3 in a debate,
\* 2 * iterations + 1 in an optimization.
TurnBudget == IF mode = "debate" THEN 2 * rounds + 3 ELSE 2 * rounds + 1

\* C18: there is no retry.  Every turn issues one client call, answered or
\* not: no two calls belong to the same turn (phase, round, participant),
\* every call but a raised one has its turn in the transcript, and the
\* calls of a session number at most its turns.
C18_OneCallPerTurn ==
  /\ Len(calls) <= TurnBudget
  /\ \A j, k \in 1..Len(calls) :
       (calls[j].phase = calls[k].phase /\ calls[j].round = calls[k].round
          /\ calls[j].who = calls[k].who) => j = k
  /\ Len(conversation) = Cardinality({k \in 1..Len(calls) : ~calls[k].raised})

\* A session that ran to its end with a failed call among its turns.
C18_Witness ==
  /\ pc = "done"
  /\ Len(calls) = TurnBudget
  /\ \E k \in 1..Len(calls) : calls[k].outcome # "ok"

\* A call is the synthesis call of its workflow.
IsSynthesisCall(k) == calls[k].phase \in {"Synthesis", "FinalSynthesis"}

\* C12 as stated: the synthesis call of both workflows is issued with a
\* temperature lower than, and so different from, both participants'
\* configured temperatures, for every pair the configuration accepts.
C12_SynthesisTemperatureLower ==
  \A k \in 1..Len(calls) :
    IsSynthesisCall(k) =>
      /\ calls[k].temp < temperature1
      /\ calls[k].temp < temperature2

\* C12, amended: the synthesis call of both workflows is issued with the
\* one fixed temperature 0.6 whatever the participants' temperatures are;
\* it is lower than a participant's temperature when that temperature is
\* above 0.6, as the default 0.7 is.
C12_SynthesisTemperatureFixed ==
  \A k \in 1..Len(calls) :
    IsSynthesisCall(k) =>
      /\ calls[k].temp = 6
      /\ temperature1 > 6 => calls[k].temp < temperature1
      /\ temperature2 > 6 => calls[k].temp < temperature2

\* A synthesis call of a session whose participant 1 is configured below
\* 0.6 and whose participant 2 is configured at 0.6.
C12_Witness ==
  /\ temperature1 < 6
  /\ temperature2 = 6
  /\ \E k \in 1..Len(calls) : IsSynthesisCall(k) /\ calls[k].outcome = "ok"

\* A credential is missing, after main's fallback to the environment, or the
\* question is empty.
IncompleteConfiguration ==
  \/ ~ResolvedKey(api_key1)
  \/ ~ResolvedKey(api_key2)
  \/ question = EmptyQuestion

\* C20: a session started with a missing credential or an empty question
\* issues no model call and ends with a configuration error, through the
\* GUI worker, through main, and through a direct call of run_debate or
\* run_optimization.
C20_NoCallOnIncompleteConfiguration ==
  IncompleteConfiguration =>
    /\ calls = <<>>
    /\ pc \in {"done", "failed", "rejected"} => result.status = "config_error"

\* The fragments put one after the other, in the order of the sequence.
RECURSIVE Concatenation(_)
Concatenation(fs) ==
  IF fs = <<>> THEN <<>>
  ELSE Concatenation(SubSeq(fs, 1, Len(fs) - 1)) \o fs[Len(fs)]

\* The string without its leading and trailing whitespace: what lies
\* between its first and its last character that is not whitespace.
Trimmed(str) ==
  LET ks == {k \in 1..Len(str) : str[k] \notin Whitespace} IN
  IF ks = {} THEN <<>>
  ELSE SubSeq(str, CHOOSE k \in ks : \A j \in ks : k <= j,
                   CHOOSE k \in ks : \A j \in ks : k >= j)

\* The contents of the first n chunks of the stream, in arrival order,
\* chunks without content left out.
RECURSIVE Arrived(_)
Arrived(n) ==
  IF n = 0 THEN <<>>
  ELSE IF chunks[n].none THEN Arrived(n - 1)
  ELSE Append(Arrived(n - 1), chunks[n].content)

IsPrefix(a, b) == Len(a) <= Len(b) /\ SubSeq(b, 1, Len(a)) = a

\* A streamed acquisition has returned after a stream that ended normally.
StreamReturned == apc = "returned" /\ stream /\ ~failure.raises

\* C15 as stated: in streaming mode the string returned is exactly the
\* concatenation of the fragments forwarded to the observer, for every
\* sequence of fragments, and it is a text, not an error.
C15_ReturnedIsConcatenation ==
  StreamReturned => returned = AcquiredText(Concatenation(forwarded))

\* C15, amended: in streaming mode the string returned is a text, not an
\* error, and equals the concatenation of the fragments forwarded to the
\* observer up to surrounding whitespace, which AIDebate's acquirer trims:
\* trimmed, the two are equal, and they are equal as they stand when the
\* concatenation neither begins nor ends with whitespace; an empty
\* sequence of fragments yields the empty string.
C15_ReturnedIsConcatenationUpToTrim ==
  StreamReturned =>
    /\ returned.kind = "text"
    /\ Trimmed(returned.chars) = Trimmed(Concatenation(forwarded))
    /\ Concatenation(forwarded) = Trimmed(Concatenation(forwarded)) =>
         returned.chars = Concatenation(forwarded)
    /\ forwarded = <<>> => returned.chars = <<>>

\* AIDebate's acquirer has returned after forwarding text that begins
\* with whitespace, in two fragments.
C15_Witness ==
  /\ StreamReturned
  /\ ~wrapper
  /\ Len(forwarded) = 2
  /\ Concatenation(forwarded) # Trimmed(Concatenation(forwarded))
  /\ Trimmed(Concatenation(forwarded)) # <<>>

\* C16: in streaming mode the string returned is the concatenation of the
\* received fragments in arrival order with surrounding whitespace trimmed,
\* on AIDebate and on AIDebateWrapper.
C16_ReturnedIsTrimmed ==
  StreamReturned =>
    returned.chars = Trimmed(Concatenation(Arrived(Len(chunks))))

\* C17 as stated: each fragment is forwarded before it is appended, so the
\* accumulator is at every point a prefix of the fragments forwarded.
C17_ForwardedBeforeAppended ==
  stream => IsPrefix(collected_content, forwarded)

\* C17, amended: each fragment is appended to the accumulator and then
\* forwarded to the observer, both in arrival order: at every point the
\* fragments forwarded are a prefix of the accumulator, which is longer by
\* the one fragment in hand between its append and its forwarding, and
\* the fragments forwarded are the contents of the chunks consumed.
C17_AppendedThenForwarded ==
  stream =>
    /\ IsPrefix(forwarded, collected_content)
    /\ Len(collected_content) =
         Len(forwarded) + (IF apc = "forward" THEN 1 ELSE 0)
    /\ forwarded = Arrived(pos)
    /\ apc = "forward" => collected_content = Arrived(pos + 1)

\* A second fragment has been appended and is not yet forwarded.
C17_Witness ==
  /\ stream
  /\ apc = "forward"
  /\ Len(forwarded) = 1
  /\ collected_content[2] # collected_content[1]

\* The category of a failure by the order 401, 429, 500/502/503,
\* invalid-request, else unclassified.
CategoryInOrder(msg) ==
  CASE Contains(msg, M401) -> "Authentication"
    [] ~Contains(msg, M401) /\ Contains(msg, M429) -> "RateLimit"
    [] ~Contains(msg, M401) /\ ~Contains(msg, M429)
       /\ (Contains(msg, M500) \/ Contains(msg, M502) \/ Contains(msg, M503)) ->
         "Service"
    [] ~Contains(msg, M401) /\ ~Contains(msg, M429)
       /\ ~(Contains(msg, M500) \/ Contains(msg, M502) \/ Contains(msg, M503))
       /\ Contains(msg, MInvalidRequest) -> "RequestFormat"
    [] OTHER -> "Unclassified"

\* C19: every failed acquisition is reported under exactly one category,
\* chosen in the order Authentication (401), RateLimit (429), Service
\* (500/502/503), RequestFormat (invalid request), else Unclassified, the
\* same with and without streaming.
C19_ClassifiedInOrder ==
  (failure.raises /\ apc \in {"returned", "raised"}) =>
    category = CategoryInOrder(failure.message)

\* C21: a transcript artifact (conversation log, result text file, result
\* JSON file) is written only for a session in which every acquisition
\* succeeded; after a failed acquisition nothing is persisted.
C21_PersistedOnlyIfAllAcquired ==
  (artifacts # {} \/ output_file.written) => AllAnswered

\* C22: once DebateWorker.stop has been called no turn that has not yet
\* started issues a model call: at most the turn in flight at the time of
\* the call completes, so at most one call follows it.
C22_NoCallAfterStop ==
  ~running => Len(calls) <= stop_mark + 1

\* C23: the wrapper's current_round never exceeds total_rounds
\* (current_round is counted in half rounds here).
C23_RoundWithinTotal ==
  wrapper => current_round <= 2 * total_rounds

\* C27: a session that has completed ends as completed, with its result,
\* whether or not the artifact could be written: save_debate and
\* save_optimization return, and the GUI worker ends with the finished
\* event, not with an error event.
C27_WriteFailureNotFatal ==
  (pc = "done" /\ wpc = "ended") =>
    /\ result.status = "completed"
    /\ entry = "gui" => events[Len(events)] = FinishedEvent

\* C28: in the file written by save_debate / save_optimization every turn
\* but the final one is in the body once, in transcript order, and the
\* final turn is rendered once, in the final section after the body, and
\* not in the body.
C28_FinalOnlyInFinalSection ==
  output_file.written =>
    LET conv == result.conversation
        n == Len(conv)
    IN /\ Len(output_file.body) = n - 1
       /\ \A k \in 1..(n - 1) : output_file.body[k] = Block(k, conv[k])
       /\ \A k \in 1..Len(output_file.body) : output_file.body[k].index # n
       /\ output_file.final = conv[n].content

\* A file written for a debate of MaxRounds rounds.
C28_Witness ==
  /\ output_file.written
  /\ mode = "debate"
  /\ Len(output_file.body) = 2 + 2 * MaxRounds

\* The event ends the worker's run.
IsTerminal(e) == e.kind \in {"finished", "error"}

\* C30: a run of the session worker emits exactly one terminal event, the
\* finished event or one error event: a terminal event is the last event
\* emitted and ends the run, and a run that has ended has emitted one.
C30_OneTerminalEvent ==
  entry = "gui" =>
    /\ \A k \in 1..Len(events) :
         IsTerminal(events[k]) => (k = Len(events) /\ wpc = "ended")
    /\ wpc = "ended" => (events # <<>> /\ IsTerminal(events[Len(events)]))

\* A worker that has ended with the finished event after text and progress
\* events and a saved result.
C30_Witness ==
  /\ entry = "gui"
  /\ wpc = "ended"
  /\ events[Len(events)] = FinishedEvent
  /\ "result_json" \in artifacts
  /\ \E k \in 1..Len(events) : events[k].kind = "progress"


\* ------------------------------------------------------------------------
\* The resolver (SpecResolve).

\* The results of the two calls of the constructor, once made.
Resolutions ==
  (IF rpc # "resolve1"
   THEN {[model |-> model1, api_base |-> api_base1, api_type |-> api_type1,
          base_url |-> base_url1]}
   ELSE {})
  \cup
  (IF rpc \in {"clients", "constructed"}
   THEN {[model |-> model2, api_base |-> api_base2, api_type |-> api_type2,
          base_url |-> base_url2]}
   ELSE {})

\* C24: a call with a non-empty explicit endpoint returns the type "custom"
\* and that endpoint, whatever the model identifier is, and the client of a
\* custom type is created with that endpoint.
C24_ExplicitEndpointWins ==
  /\ \A r \in Resolutions :
       (r.api_base.given /\ r.api_base.url # "") =>
         r.api_type = "custom" /\ r.base_url = r.api_base
  /\ (rpc = "constructed" /\ api_base1.given /\ api_base1.url # "") =>
       client_base1 = api_base1
  /\ (rpc = "constructed" /\ api_base2.given /\ api_base2.url # "") =>
       client_base2 = api_base2

\* An explicit endpoint was given with an identifier of a known prefix and
\* the engine was constructed with the custom type.
C24_Witness ==
  /\ rpc = "constructed"
  /\ model1 = GPT4
  /\ api_base1 = Endpoint("http://localhost:8000/v1")
  /\ api_type1 = "custom"
  /\ model2 = TONGYI
  /\ api_base2 = Endpoint("http://localhost:8000/v1")
  /\ client_base2 = api_base2

\* The ordered prefix table: the prefixes of an entry, its provider type and
\* its endpoint (the default endpoint is None).
PrefixTable ==
  << [prefixes |-> {<<"g", "p", "t">>},
      type |-> "openai",
      endpoint |-> [given |-> FALSE, url |-> ""]],
     [prefixes |-> {<<"d", "e", "e", "p", "s", "e", "e", "k">>},
      type |-> "deepseek",
      endpoint |-> [given |-> TRUE, url |-> "https://api.deepseek.com/v1"]],
     [prefixes |-> {<<"c", "l", "a", "u", "d", "e">>},
      type |-> "anthropic",
      endpoint |-> [given |-> TRUE, url |-> "https://api.anthropic.com/v1"]],
     [prefixes |-> {<<"m", "o", "o", "n", "s", "h", "o", "t">>},
      type |-> "moonshot",
      endpoint |-> [given |-> TRUE, url |-> "https://api.moonshot.cn/v1"]],
     [prefixes |-> {<<"g", "l", "m">>},
      type |-> "chatglm",
      endpoint |-> [given |-> TRUE, url |-> "https://open.bigmodel.cn/api/paas/v4"]],
     [prefixes |-> {<<"q", "w", "e", "n">>, <<"U+901A", "U+4E49">>},
      type |-> "qwen",
      endpoint |-> [given |-> TRUE, url |-> "https://dashscope.aliyuncs.com/api/v1"]],
     [prefixes |-> {<<"e", "r", "n", "i", "e">>, <<"U+6587", "U+5FC3">>},
      type |-> "ernie",
      endpoint |->
        [given |-> TRUE, url |-> "https://aip.baidubce.com/rpc/2.0/ai_custom/v1"]] >>

\* The entries of the table an identifier matches.
Matches(model) ==
  {k \in 1..Len(PrefixTable) :
     \E p \in PrefixTable[k].prefixes :
       Len(p) <= Len(model) /\ SubSeq(model, 1, Len(p)) = p}

\* The first of them.
FirstMatch(model) ==
  CHOOSE k \in Matches(model) : \A j \in Matches(model) : k <= j

\* C25: a call without an explicit endpoint whose identifier matches the
\* prefix table returns the provider type and the endpoint of the first
\* matching entry; for the gpt prefix that is openai with the default endpoint.
C25_FirstMatchingPrefix ==
  \A r \in Resolutions :
    (~(r.api_base.given /\ r.api_base.url # "") /\ Matches(r.model) # {}) =>
      /\ r.api_type = PrefixTable[FirstMatch(r.model)].type
      /\ r.base_url = PrefixTable[FirstMatch(r.model)].endpoint

\* Without explicit endpoints a localized name was resolved to qwen and a
\* gpt identifier to openai with the default endpoint.
C25_Witness ==
  /\ rpc = "constructed"
  /\ model1 = TONGYI
  /\ api_base1 = None
  /\ api_type1 = "qwen"
  /\ model2 = GPT4
  /\ api_base2 = Endpoint("")
  /\ api_type2 = "openai"
  /\ base_url2 = None

\* The provider types.
ProviderTypes ==
  {"custom", "openai", "deepseek", "anthropic", "moonshot", "chatglm", "qwen",
   "ernie"}

\* C26: every call returns one pair of a provider type and an endpoint, for
\* every identifier and an absent, empty or non-empty endpoint; the two calls
\* with the same arguments return the same pair; and with no endpoint and no
\* matching prefix the pair is openai with the default endpoint.
C26_TotalAndDeterministic ==
  /\ \A r \in Resolutions :
       /\ r.api_type \in ProviderTypes
       /\ r.base_url \in [given : BOOLEAN, url : STRING]
       /\ r.api_type # "openai" => (r.base_url.given /\ r.base_url.url # "")
  /\ \A r1, r2 \in Resolutions :
       (r1.model = r2.model /\ r1.api_base = r2.api_base) =>
         (r1.api_type = r2.api_type /\ r1.base_url = r2.base_url)
  /\ \A r \in Resolutions :
       (~(r.api_base.given /\ r.api_base.url # "") /\ Matches(r.model) = {}) =>
         (r.api_type = "openai" /\ r.base_url = [given |-> FALSE, url |-> ""])
  /\ rpc = "resolve1" => ENABLED ResolveModel1
  /\ rpc = "resolve2" => ENABLED ResolveModel2

\* Both calls were made with an unknown identifier, one with an empty and one
\* with an absent endpoint, and both fell back to openai.
C26_Witness ==
  /\ rpc = "constructed"
  /\ model1 = LLAMA
  /\ api_base1 = Endpoint("")
  /\ api_type1 = "openai"
  /\ base_url1 = None
  /\ model2 = <<>>
  /\ api_base2 = None
  /\ api_type2 = "openai"


\* ------------------------------------------------------------------------
\* Two wrappers at the same time (SpecPrint).

\* C29: in every interleaving of two wrapper runs the signal of a wrapper
\* emits the text of its own run only, and once both runs have ended
\* builtins.print is the built-in function it was before either run started.
C29_SessionsShareNothing ==
  /\ \A w \in DOMAIN sinks : \A k \in 1..Len(sinks[w]) : sinks[w][k] = w
  /\ (ppc # <<>> /\ \A w \in DOMAIN ppc : ppc[w] = "ended") =>
       builtins_print = [fn |-> "print", of |-> 0]


\* ------------------------------------------------------------------------
\* The transcript and the synthesis (Spec).

\* The attribution of the k-th entry of a synthesis history: the phase, the
\* round and the participant of the turn it is attributed to.
Attribution(item) ==
  CASE item.label = "AI 1 initial" -> <<"Opening", 0, 1>>
    [] item.label = "AI 2 initial" -> <<"Opening", 0, 2>>
    [] item.label = "AI 1 rebuttal" -> <<"Rebuttal", item.round, 1>>
    [] item.label = "AI 2 rebuttal" -> <<"Rebuttal", item.round, 2>>
    [] item.label = "analyst initial" -> <<"InitialAnalysis", 0, 1>>
    [] item.label = "optimizer answer" -> <<"Optimize", item.round, 2>>
    [] item.label = "final optimizer answer" -> <<"Optimize", item.round, 2>>
    [] item.label = "analyst feedback" -> <<"Critique", item.round, 1>>
    [] OTHER -> <<"none", 0, 0>>

\* C32: the history of the synthesis prompt has one entry for every turn made
\* before the synthesis, in the order of the transcript, with the content of
\* that turn and attributed to the phase, round and participant that made it.
C32_SynthesisHasWholeTranscript ==
  \A k \in 1..Len(calls) :
    IsSynthesisCall(k) =>
      LET h == calls[k].prompt.history IN
        /\ Len(h) = k - 1
        /\ \A j \in 1..(k - 1) :
             /\ h[j].content = conversation[j].content
             /\ Attribution(h[j]) = <<calls[j].phase, calls[j].round, calls[j].who>>

\* Both syntheses were reached after MaxRounds rounds: a debate's and, with
\* the last iteration without critique, an optimization's.
C32_Witness ==
  /\ pc = "done"
  /\ rounds = MaxRounds
  /\ Len(calls[Len(calls)].prompt.history) = IF mode = "debate" THEN 2 + 2 * MaxRounds
                                             ELSE 2 * MaxRounds
  /\ mode = "debate"

\* C33: every step of a session leaves the turns of the transcript as they
\* are and in place, and appends one turn at the end exactly when a call of
\* the step returned.
C33_TranscriptAppendOnly ==
  [][/\ Len(conversation') >= Len(conversation)
     /\ \A k \in 1..Len(conversation) : conversation'[k] = conversation[k]
     /\ Len(conversation') - Len(conversation) =
          Cardinality({k \in (Len(calls) + 1)..Len(calls') : ~calls'[k].raised})
     /\ Len(calls') <= Len(calls) + 1]_vars

\* A session of the GUI failed by an exception after turns had been made.
C33_Witness ==
  /\ pc = "failed"
  /\ Len(conversation) >= 2
  /\ Len(calls) = Len(conversation) + 1

\* C34: in a completed session the turn with the final label is the last one
\* and the only one, and final_answer / final_result is its content.
C34_OneFinalTurn ==
  pc = "done" =>
    /\ conversation # <<>>
    /\ {k \in 1..Len(conversation) :
          conversation[k].role.label
            = (IF mode = "debate" THEN "final conclusion" ELSE "final optimized answer")}
       = {Len(conversation)}
    /\ result.conversation = conversation
    /\ result.final = conversation[Len(conversation)].content

\* A completed optimization of MaxRounds iterations.
C34_Witness ==
  /\ pc = "done"
  /\ mode = "optimization"
  /\ rounds = MaxRounds
  /\ result.status = "completed"
  /\ result.final = Text(Len(calls))


\* The percentages emitted on progress_signal so far, in order.
Percentages ==
  LET ps == SelectSeq(events, LAMBDA e : e.kind = "progress")
  IN [k \in 1..Len(ps) |-> ps[k].n]

\* C36: every percentage emitted in a GUI session lies in 0..100 and no
\* percentage is lower than the one emitted before it.
C36_ProgressInRange ==
  /\ \A k \in 1..Len(Percentages) : Percentages[k] \in 0..100
  /\ \A k \in 1..(Len(Percentages) - 1) : Percentages[k] <= Percentages[k + 1]


\* ------------------------------------------------------------------------
\* One wrapper run at a time (SpecSingleRun).

\* C37: when a run that did not overlap with another one has returned or
\* raised, builtins.print is the function it was when the run started: the
\* one the run saved, which is the built-in print.
C37_PrintRestored ==
  /\ (\A w \in DOMAIN ppc : ppc[w] \in {"idle", "saved", "ended"}) =>
       builtins_print = [fn |-> "print", of |-> 0]
  /\ \A w \in DOMAIN ppc :
       ppc[w] \in {"saved", "running", "ended"} =>
         original_print[w] = [fn |-> "print", of |-> 0]

\* A run has ended after its prints and the next run has ended as well.
C37_Witness ==
  /\ \A w \in Wrappers : ppc[w] = "ended"
  /\ Len(stdout) = 2 * MaxPrints
  /\ Len(sinks[1]) = MaxPrints + 1
  /\ Len(sinks[2]) = MaxPrints


\* ------------------------------------------------------------------------
\* The events of the turns (Spec).

\* The place of a part of a turn's output in the order of production.
PartRank(e) ==
  CASE e.part = "header" -> 0
    [] e.part = "fragment" -> e.j
    [] e.part = "failure" -> MaxFragments + e.j
    [] e.part = "progress" -> MaxFragments + 3
    [] OTHER -> MaxFragments + 4

\* C31: the events of a session are emitted turn by turn, no event of a turn
\* after an event of a later turn, and within a turn in the order of
\* production: the fragments of the stream in the order they arrived, then
\* the completed output of the turn.
C31_EventsInTurnOrder ==
  \A a, b \in 1..Len(events) :
    (a < b /\ events[a].turn > 0 /\ events[b].turn > 0) =>
      /\ events[a].turn <= events[b].turn
      /\ events[a].turn = events[b].turn => PartRank(events[a]) < PartRank(events[b])

\* A streamed session of the GUI has emitted the fragments and the output of
\* at least three turns.
C31_Witness ==
  /\ wrapper
  /\ stream
  /\ pc = "done"
  /\ \E a, b \in 1..Len(events) :
       /\ a < b
       /\ events[a].part = "fragment" /\ events[a].j = MaxFragments
       /\ events[b].part = "output" /\ events[b].turn = events[a].turn
  /\ \E a \in 1..Len(events) : events[a].turn >= 3 /\ events[a].part = "fragment"


\* ------------------------------------------------------------------------
\* Termination (SpecLive) and the two acquisition modes (Spec).

NonStreamingContent(c) ==
  IF c.outcome = "ok" THEN [kind |-> "text", id |-> c.n, err |-> "none"]
  ELSE [kind |-> "error", id |-> 0, err |-> c.outcome]

\* C38: a GUI session that has ended has the outcome and the transcript of
\* the session without streaming on the same responses and failures of the
\* clients: it has completed, and the content of every turn is what the
\* non-streaming acquirer returns for the call of that turn.
C38_StreamingEquivalent ==
  (wrapper /\ pc \in {"done", "failed"}) =>
    /\ pc = "done"
    /\ Len(conversation) = Len(calls)
    /\ \A k \in 1..Len(conversation) :
         conversation[k].content = NonStreamingContent(calls[k])


\* ------------------------------------------------------------------------
\* Stopping a session (SpecStop).

\* C39: once stop_process has shown the stopped message and enabled the
\* start button again, the window receives nothing more of the session: no
\* text, no progress, no result and no error.
C39_NothingAfterStopped ==
  \A a, b \in 1..Len(ui) :
    (a < b /\ ui[a].part = "start_enabled") => ui[b].kind = "mark"

\* stop_process has run to its end on a session that went on to its result:
\* the result was handled after the stopped message and before the start
\* button was enabled.
C39_Witness ==
  /\ spc = "done"
  /\ \E a, b, c \in 1..Len(ui) :
       /\ a < b /\ b < c
       /\ ui[a].part = "stopped"
       /\ ui[b].kind = "finished"
       /\ ui[c].part = "start_enabled"

====
